---- MODULE Spec2Model ----
\* Exercise-reference resolution layer of the routine service:
\* ExerciseService.fetchExercisesBatch (the retry loop over the batch
\* endpoint of the exercise service) and the two entry points built on it,
\* verifyExercises and getExercises.
\*
\* One call is followed from its invocation to the settlement of its promise.
\* The upstream (axios + the exercise service) is the environment: it answers
\* every request with a 2xx response carrying some body, or rejects with an
\* error carrying some status, Retry-After header and message.
EXTENDS Integers, Sequences, FiniteSets, TLC

VARIABLES
    pc,            \* "idle" | "calling" (awaiting axios.get) | "sleeping" (awaiting delay) | "done"
    op,            \* entry point invoked: "batch" | "verify" | "get"
    exerciseIds,   \* the caller's argument
    maxRetries,    \* parameter of fetchExercisesBatch
    uniqueIds,     \* local of fetchExercisesBatch
    attempt,       \* local of fetchExercisesBatch
    calls,         \* number of axios.get calls issued by this call
    lastRequest,   \* params.ids of the last axios.get, as comma-joined tokens
    sleeps,        \* number of this.delay calls awaited by this call
    lastSleep,     \* the last this.delay: the attempt it follows, the header read, the ms passed
    lastResponse,  \* the last answer of the upstream
    batchResult,   \* settlement of fetchExercisesBatch
    result,        \* settlement of the entry point invoked
    inFlight,      \* axios.get calls issued and not yet answered
    cancelRequested, \* the caller's deadline fired while the call was suspended
    twin,          \* two calls on the shared instance: the locals and history of each
    counter,       \* two calls on the shared instance: the attempt counters
    upstream,      \* a deterministic upstream: how it answers the requests of any call
    first,         \* the caller's argument and the settlement of an earlier call
    idsQuery,      \* req.query.ids of a batch request to the exercise service
    verdict,       \* what validateBatchRequest made of it
    perId,         \* one call of the per-identifier variant of the service: its locals and history
    workoutPage,   \* WorkoutStartPage: its useState values and the last createWorkout payload
    routineForm    \* RoutineFormPage: routineExercises as set and as last rendered

\* The call followed alone.
callVars == <<pc, op, exerciseIds, maxRetries, uniqueIds, attempt, calls, lastRequest,
              sleeps, lastSleep, lastResponse, batchResult, result, inFlight>>

\* What a step of the call followed alone leaves as it is.
repeatVars == <<upstream, first>>

\* The state of the programs modelled beside the batch variant of the service.
validationVars == <<idsQuery, verdict>>

later == <<repeatVars, validationVars, perId, workoutPage, routineForm>>

aside == <<cancelRequested, twin, counter, later>>

vars == <<callVars, cancelRequested, twin, counter, later>>

-----------------------------------------------------------------------------
\* Bounds of the model.

NumIds == 2            \* identifiers are 1..NumIds
MaxLen == 2            \* longest identifier sequence a caller passes
MaxBody == 2           \* most entries (entities + missing ids) in an upstream body
MaxRetriesBound == 1   \* largest maxRetries passed to fetchExercisesBatch directly

\* Program constants.

DefaultMaxRetries == 3
BaseDelay == 200
MsPerSecond == 1000
TooManyRequests == 429
OkStatus == 200
NoStatus == 0          \* error.response?.status is undefined

Ids == 1..NumIds

SeqsUpTo(S, n) == UNION {[1..k -> S] : k \in 0..n}

Range(s) == {s[i] : i \in 1..Len(s)}

RECURSIVE Pow2(_)
Pow2(n) == IF n <= 0 THEN 1 ELSE 2 * Pow2(n - 1)

-----------------------------------------------------------------------------
\* Array.from(new Set(exerciseIds)): first occurrences, in order.

UniqueKeepAll(ids) == ids

Unique(ids) ==
    LET F[i \in 0..Len(ids)] ==
            IF i = 0 THEN <<>>
            ELSE IF \E j \in 1..(i - 1) : ids[j] = ids[i]
                 THEN F[i - 1]
                 ELSE Append(F[i - 1], ids[i])
    IN  F[Len(ids)]

\* uniqueIds.join(','): the decimal tokens separated by commas.

JoinIds(ids) ==
    [i \in 1..(IF Len(ids) = 0 THEN 0 ELSE 2 * Len(ids) - 1) |->
        IF i % 2 = 1 THEN ToString(ids[(i + 1) \div 2]) ELSE ","]

\* !Array.isArray(exerciseIds) || exerciseIds.length === 0 (callers pass arrays).

NeverEmptyInput(ids) == FALSE

IsEmptyInput(ids) == Len(ids) = 0

-----------------------------------------------------------------------------
\* Retry-After header values. A header is absent (undefined) or a string,
\* written here as its sequence of characters.

NoHeader == [present |-> FALSE, value |-> <<>>]

HeaderValues ==
    { <<>>, <<" ">>, <<"0">>, <<"5">>, <<"1", "2">>, <<" ", "5">>,
      <<"-", "5">>, <<"-">>, <<"x">>, <<"5", "x">> }

Headers == {NoHeader} \cup {[present |-> TRUE, value |-> v] : v \in HeaderValues}

LiveHeaders == {NoHeader, [present |-> TRUE, value |-> <<"5">>]}

Digits == {"0", "1", "2", "3", "4", "5", "6", "7", "8", "9"}

DigitValue(c) ==
    CASE c = "0" -> 0 [] c = "1" -> 1 [] c = "2" -> 2 [] c = "3" -> 3 [] c = "4" -> 4
      [] c = "5" -> 5 [] c = "6" -> 6 [] c = "7" -> 7 [] c = "8" -> 8 [] c = "9" -> 9

NaN == [finite |-> FALSE, value |-> 0]

Finite(n) == [finite |-> TRUE, value |-> n]

RECURSIVE TrimLeft(_)
TrimLeft(s) == IF s # <<>> /\ Head(s) = " " THEN TrimLeft(Tail(s)) ELSE s

RECURSIVE TrimRight(_)
TrimRight(s) ==
    IF s # <<>> /\ s[Len(s)] = " " THEN TrimRight(SubSeq(s, 1, Len(s) - 1)) ELSE s

RECURSIVE DecimalDigits(_)
DecimalDigits(s) ==
    IF s = <<>> THEN 0
    ELSE 10 * DecimalDigits(SubSeq(s, 1, Len(s) - 1)) + DigitValue(s[Len(s)])

\* Number(x) of ECMAScript on undefined and on strings made of decimal digits,
\* signs, blanks and other characters (no decimal point, exponent or radix
\* prefix): undefined is NaN, a blank string is 0, an optionally signed digit
\* string is its value, anything else is NaN.

ToNumber(header) ==
    IF ~header.present THEN NaN
    ELSE LET t == TrimRight(TrimLeft(header.value))
             signed == t # <<>> /\ Head(t) \in {"+", "-"}
             body == IF signed THEN Tail(t) ELSE t
         IN  IF t = <<>> THEN Finite(0)
             ELSE IF body # <<>> /\ Range(body) \subseteq Digits
                  THEN Finite(IF signed /\ Head(t) = "-"
                              THEN 0 - DecimalDigits(body)
                              ELSE DecimalDigits(body))
                  ELSE NaN

\* Number.isFinite(retryAfter) ? retryAfter * 1000 : Math.pow(2, attempt) * 200

BackoffAfterIncrement(header, att) ==
    LET retryAfter == ToNumber(header)
    IN  IF retryAfter.finite
        THEN retryAfter.value * MsPerSecond
        ELSE Pow2(att + 1) * BaseDelay

BackoffUnscaled(header, att) ==
    LET retryAfter == ToNumber(header)
    IN  IF retryAfter.finite
        THEN retryAfter.value
        ELSE Pow2(att) * BaseDelay

BackoffDecaying(header, att) ==
    LET retryAfter == ToNumber(header)
    IN  IF retryAfter.finite
        THEN retryAfter.value * MsPerSecond
        ELSE BaseDelay \div Pow2(att)

Backoff(header, att) ==
    LET retryAfter == ToNumber(header)
    IN  IF retryAfter.finite
        THEN retryAfter.value * MsPerSecond
        ELSE Pow2(att) * BaseDelay

\* status === 429 && attempt < maxRetries

ShouldRetryAtLimit(status, att, limit) == status = TooManyRequests /\ att <= limit

ShouldRetryAnyError(status, att, limit) == att < limit

ShouldRetry(status, att, limit) == status = TooManyRequests /\ att < limit

-----------------------------------------------------------------------------
\* What the upstream can answer.

\* A 2xx body: response.data may be absent, response.data.data may be absent,
\* and inside it the exercises and missingExerciseIds lists may be absent.
\* Entity j of the list carries its id and its position as payload.

Entities(es) == [j \in 1..Len(es) |-> [id |-> es[j], tag |-> j]]

NoDataBody ==
    [shape |-> "noData", hasExercises |-> FALSE, exercises |-> <<>>,
     hasMissing |-> FALSE, missingExerciseIds |-> <<>>]

NoEnvelopeBody ==
    [shape |-> "noEnvelope", hasExercises |-> FALSE, exercises |-> <<>>,
     hasMissing |-> FALSE, missingExerciseIds |-> <<>>]

EnvelopeBodies ==
    { [shape |-> "envelope", hasExercises |-> he, exercises |-> Entities(es),
       hasMissing |-> hm, missingExerciseIds |-> ms] :
        <<es, ms, he, hm>> \in
            { q \in SeqsUpTo(Ids, MaxBody) \X SeqsUpTo(Ids, MaxBody) \X BOOLEAN \X BOOLEAN :
                /\ Len(q[1]) + Len(q[2]) <= MaxBody
                /\ (q[1] # <<>> => q[3])
                /\ (q[2] # <<>> => q[4]) } }

Bodies == {NoDataBody, NoEnvelopeBody} \cup EnvelopeBodies

EnvelopeBody(es, ms) ==
    [shape |-> "envelope", hasExercises |-> TRUE, exercises |-> Entities(es),
     hasMissing |-> TRUE, missingExerciseIds |-> ms]

Messages == {"Request failed", "Network Error"}

ErrorStatuses == {TooManyRequests, 500, 404, NoStatus}

NoBody == NoEnvelopeBody

NoResponse ==
    [status |-> NoStatus, retryAfter |-> NoHeader, message |-> "", body |-> NoBody]

\* Thrown values, as far as the code and its callers read them.

UpstreamError(status, message) ==
    [name |-> "AxiosError", status |-> status, message |-> message]

TypeErrorNoData ==
    [name |-> "TypeError", status |-> NoStatus,
     message |-> "Cannot read properties of undefined (reading 'data')"]

LoopExitError ==
    [name |-> "Error", status |-> NoStatus,
     message |-> "Failed to retrieve exercises after retries"]

Ok(value) == [kind |-> "ok", value |-> value]

Thrown(error) == [kind |-> "error", error |-> error]

Pending == [kind |-> "pending"]

\* Lines 14-17: the outcome for an empty input.

EmptyOutcome == [exerciseMap |-> <<>>, missingExerciseIds |-> <<>>]

\* Lines 31-37: const { exercises = [], missingExerciseIds = [] } = response.data.data || {}
\* and new Map(exercises.map(e => [e.id, e])): the last entity of an id wins.

BuildOutcomeDropMissing(body) ==
    LET exercises == IF body.shape = "envelope" /\ body.hasExercises
                     THEN body.exercises ELSE <<>>
        keys == {exercises[j].id : j \in 1..Len(exercises)}
    IN  [exerciseMap |->
            [k \in keys |->
                exercises[CHOOSE j \in 1..Len(exercises) :
                    /\ exercises[j].id = k
                    /\ \A i \in (j + 1)..Len(exercises) : exercises[i].id # k]],
         missingExerciseIds |-> <<>>]

BuildOutcomeKeyedByPosition(body) ==
    LET exercises == IF body.shape = "envelope" /\ body.hasExercises
                     THEN body.exercises ELSE <<>>
        missing == IF body.shape = "envelope" /\ body.hasMissing
                   THEN body.missingExerciseIds ELSE <<>>
    IN  [exerciseMap |-> [k \in 1..Len(exercises) |-> exercises[k]],
         missingExerciseIds |-> missing]

BuildOutcome(body) ==
    LET exercises == IF body.shape = "envelope" /\ body.hasExercises
                     THEN body.exercises ELSE <<>>
        missing == IF body.shape = "envelope" /\ body.hasMissing
                   THEN body.missingExerciseIds ELSE <<>>
        keys == {exercises[j].id : j \in 1..Len(exercises)}
    IN  [exerciseMap |->
            [k \in keys |->
                exercises[CHOOSE j \in 1..Len(exercises) :
                    /\ exercises[j].id = k
                    /\ \A i \in (j + 1)..Len(exercises) : exercises[i].id # k]],
         missingExerciseIds |-> missing]

\* verifyExercises, lines 93-104.

VerifyExercisesAlwaysValid(batch) ==
    IF batch.kind = "ok"
    THEN Ok([allValid |-> TRUE,
             invalidExercises |-> batch.value.missingExerciseIds])
    ELSE Thrown([name |-> "Error", status |-> NoStatus,
                 message |-> "Failed to verify exercises: " \o batch.error.message])

VerifyExercisesResult(batch) ==
    IF batch.kind = "ok"
    THEN Ok([allValid |-> Len(batch.value.missingExerciseIds) = 0,
             invalidExercises |-> batch.value.missingExerciseIds])
    ELSE Thrown([name |-> "Error", status |-> NoStatus,
                 message |-> "Failed to verify exercises: " \o batch.error.message])

\* getExercises, lines 107-122: exerciseIds.map(id => exerciseMap.get(id)).filter(Boolean)

GetExercisesSwallowsFailure(ids, batch) ==
    IF batch.kind = "ok"
    THEN LET found == SelectSeq(ids, LAMBDA id : id \in DOMAIN batch.value.exerciseMap)
         IN  Ok([exercises |-> [i \in 1..Len(found) |-> batch.value.exerciseMap[found[i]]],
                 missingExerciseIds |-> batch.value.missingExerciseIds])
    ELSE Ok([exercises |-> <<>>, missingExerciseIds |-> <<>>])

GetExercisesDeduplicated(ids, batch) ==
    IF batch.kind = "ok"
    THEN LET found == SelectSeq(Unique(ids), LAMBDA id : id \in DOMAIN batch.value.exerciseMap)
         IN  Ok([exercises |-> [i \in 1..Len(found) |-> batch.value.exerciseMap[found[i]]],
                 missingExerciseIds |-> batch.value.missingExerciseIds])
    ELSE Thrown([name |-> "Error", status |-> NoStatus,
                 message |-> "Failed to get exercises: " \o batch.error.message])

GetExercisesResult(ids, batch) ==
    IF batch.kind = "ok"
    THEN LET found == SelectSeq(ids, LAMBDA id : id \in DOMAIN batch.value.exerciseMap)
         IN  Ok([exercises |-> [i \in 1..Len(found) |-> batch.value.exerciseMap[found[i]]],
                 missingExerciseIds |-> batch.value.missingExerciseIds])
    ELSE Thrown([name |-> "Error", status |-> NoStatus,
                 message |-> "Failed to get exercises: " \o batch.error.message])

EntryResult(entry, ids, batch) ==
    CASE entry = "verify" -> VerifyExercisesResult(batch)
      [] entry = "get" -> GetExercisesResult(ids, batch)
      [] OTHER -> batch

-----------------------------------------------------------------------------
\* The call.

\* Two invocations running on the one exported instance (line 125).
TwinCalls == {1, 2}

IdleFrame ==
    [pc |-> "idle", entry |-> "batch", exerciseIds |-> <<>>, maxRetries |-> 0,
     uniqueIds |-> <<>>, calls |-> 0, retried |-> 0, answer |-> NoResponse,
     batchResult |-> Pending, result |-> Pending]

\* An upstream that answers every request of a call the same way, call after
\* call: it throttles the first `throttle` requests of a call with 429 and
\* answers the requests after them by what the request asks for.
RepeatInputs == {<<>>, <<1>>, <<2, 1>>, <<1, 2, 1>>}

RepeatRequests == {JoinIds(Unique(ids)) : ids \in RepeatInputs \ {<<>>}}

Answered(status, message, body) ==
    [status |-> status, retryAfter |-> NoHeader, message |-> message, body |-> body]

RepeatAnswers ==
    {Answered(OkStatus, "", EnvelopeBody(<<1>>, <<2>>)),
     Answered(OkStatus, "", EnvelopeBody(<<2, 1>>, <<>>)),
     Answered(500, "Request failed", NoBody)}

RepeatThrottles == {0, DefaultMaxRetries - 1, DefaultMaxRetries + 1}

Upstreams == [throttle : RepeatThrottles, answer : [RepeatRequests -> RepeatAnswers]]

SteadyUpstream ==
    [throttle |-> 0,
     answer |-> [r \in RepeatRequests |-> Answered(500, "Request failed", NoBody)]]

AnswerOf(u, request, nth) ==
    IF nth <= u.throttle
    THEN Answered(TooManyRequests, "Request failed", NoBody)
    ELSE u.answer[request]

\* validateBatchRequest of the exercise service (middleware/validation.js,
\* lines 65-88). The ids query value is absent or a string, written as its
\* sequence of characters.

MaxQueryLen == 4       \* longest ids query value

QueryChars == {"0", "1", "2", ",", "-", "+", " ", "a"}

NoQuery == [present |-> FALSE, value |-> <<>>]

Queries ==
    {NoQuery} \cup {[present |-> TRUE, value |-> v] : v \in SeqsUpTo(QueryChars, MaxQueryLen)}

\* value.split(','): the pieces between the commas, one more than commas.
RECURSIVE Split(_)
Split(s) ==
    IF \A i \in 1..Len(s) : s[i] # ","
    THEN <<s>>
    ELSE LET i == CHOOSE k \in 1..Len(s) : s[k] = "," /\ \A j \in 1..(k - 1) : s[j] # ","
         IN  <<SubSeq(s, 1, i - 1)>> \o Split(SubSeq(s, i + 1, Len(s)))

\* id.trim()
Trim(s) == TrimRight(TrimLeft(s))

RECURSIVE DigitPrefix(_)
DigitPrefix(s) ==
    IF s # <<>> /\ Head(s) \in Digits THEN <<Head(s)>> \o DigitPrefix(Tail(s)) ELSE <<>>

\* Number.parseInt(id, 10): leading blanks and one sign are skipped, the
\* longest run of decimal digits that follows is the value, and what comes
\* after it is ignored; with no digit there the result is NaN.
ParseInt(s) ==
    LET t == TrimLeft(s)
        signed == t # <<>> /\ Head(t) \in {"+", "-"}
        digits == DigitPrefix(IF signed THEN Tail(t) ELSE t)
    IN  IF digits = <<>> THEN NaN
        ELSE Finite(IF signed /\ Head(t) = "-"
                    THEN 0 - DecimalDigits(digits)
                    ELSE DecimalDigits(digits))

\* !Number.isInteger(parsed) || parsed <= 0
IsInvalidId(id) ==
    LET parsed == ParseInt(id)
    IN  ~parsed.finite \/ parsed.value <= 0

\* ids.find(...): the first element the callback holds for, or undefined.
NotFound == [found |-> FALSE, value |-> <<>>]

Find(ids) ==
    IF \E i \in 1..Len(ids) : IsInvalidId(ids[i])
    THEN [found |-> TRUE,
          value |-> ids[CHOOSE i \in 1..Len(ids) :
                            /\ IsInvalidId(ids[i])
                            /\ \A j \in 1..(i - 1) : ~IsInvalidId(ids[j])]]
    ELSE NotFound

\* if (invalidId): undefined and the empty string are falsy.
Truthy(x) == x.found /\ x.value # <<>>

Unchecked == [valid |-> FALSE, msg |-> "unchecked"]

Accepted == [valid |-> TRUE, msg |-> ""]

Rejected(msg) == [valid |-> FALSE, msg |-> msg]

ValidateBatchRequest(q) ==
    IF ~q.present \/ q.value = <<>>
    THEN Rejected("ids query parameter is required")
    ELSE LET pieces == Split(q.value)
             ids == [i \in 1..Len(pieces) |-> Trim(pieces[i])]
         IN  IF Len(ids) = 0
             THEN Rejected("At least one id must be provided")
             ELSE IF Truthy(Find(ids))
                  THEN Rejected("ids must be a comma-separated list of positive integers")
                  ELSE Accepted

ValidationIdle ==
    /\ idsQuery = NoQuery
    /\ verdict = Unchecked

\* The per-identifier variant of the service
\* (services/routine-service/src/services/exerciseService.js): one GET per
\* identifier, getExercises looping over getExerciseWithRetry and
\* verifyExercises fanning out over verifyExercise.

LookupInputs == {<<>>, <<1>>, <<1, 2>>, <<2, 1>>, <<1, 1>>}

LookupLimits == {0 - 1, 0, 1}

\* What one GET /api/exercises/:id can answer: a status, for a 2xx whether
\* response.data and response.data.data are there, for an error its
\* Retry-After header.
LookupAnswers ==
    {[status |-> OkStatus, data |-> d, retryAfter |-> NoHeader] :
        d \in {"entity", "none", "noData"}}
    \cup {[status |-> st, data |-> "none", retryAfter |-> h] :
        st \in {404, TooManyRequests, 500, NoStatus}, h \in LiveHeaders}

Null == [null |-> TRUE]

Undefined == [undefined |-> TRUE]

\* !exercise
Falsy(value) == value \in {Null, Undefined}

EntityOf(id) == Entities(<<id>>)[1]

\* missingExerciseIdsSet.add(id)
SetAdd(set, id) == IF id \in Range(set) THEN set ELSE Append(set, id)

\* The status kept for a position whose request has not been answered.
Unanswered == 0 - 1

LoopExitLookup ==
    [name |-> "Error", status |-> NoStatus,
     message |-> "Failed to retrieve exercise after retries"]

IdleLookup ==
    [pc |-> "idle", entry |-> "getExercises", exerciseIds |-> <<>>,
     maxRetries |-> DefaultMaxRetries, index |-> 0, attempt |-> 0, calls |-> 0,
     total |-> 0, lastStatus |-> NoStatus, lastSleep |-> 0, exercises |-> <<>>,
     missingExerciseIdsSet |-> <<>>, log |-> <<>>, results |-> <<>>,
     answered |-> <<>>, result |-> Pending]

\* What the history keeps of the lookup of one identifier when it ends.
Logged(f, status, end) ==
    [id |-> f.exerciseIds[f.index], calls |-> f.calls, attempt |-> f.attempt,
     status |-> status, end |-> end]

\* Lines 33, 37 and 113-115: getExerciseWithRetry throws; getExercises wraps
\* the error and throws.
FailLookup(f, error, status) ==
    [f EXCEPT !.pc = "done",
              !.lastStatus = status,
              !.log = Append(@, Logged(f, status, "thrown")),
              !.result =
                  IF f.entry = "getExercises"
                  THEN Thrown([name |-> "Error", status |-> NoStatus,
                               message |-> "Failed to get exercises: " \o error.message])
                  ELSE Thrown(error)]

\* Lines 13-17 (and 98-99 for getExercises): getExerciseWithRetry is invoked
\* for the identifier at position i, up to the await of its first request.
StartLookupCarryingAttempt(f, i) ==
    LET g == [f EXCEPT !.index = i, !.calls = 0]
    IN  IF g.attempt <= g.maxRetries
        THEN [g EXCEPT !.pc = "calling", !.calls = 1, !.total = @ + 1]
        ELSE FailLookup(g, LoopExitLookup, f.lastStatus)

StartLookup(f, i) ==
    LET g == [f EXCEPT !.index = i, !.attempt = 0, !.calls = 0]
    IN  IF g.attempt <= g.maxRetries
        THEN [g EXCEPT !.pc = "calling", !.calls = 1, !.total = @ + 1]
        ELSE FailLookup(g, LoopExitLookup, f.lastStatus)

\* Lines 17 and 99-112: getExerciseWithRetry returns value; getExercises
\* files it and goes on to the next identifier, or returns.
FinishLookupStopsAtMissing(f, value, status) ==
    LET id == f.exerciseIds[f.index]
        g == [f EXCEPT !.lastStatus = status,
                       !.log = Append(@, Logged(f, status, "returned")),
                       !.exercises = IF Falsy(value) THEN @ ELSE Append(@, value),
                       !.missingExerciseIdsSet = IF Falsy(value) THEN SetAdd(@, id) ELSE @]
    IN  IF f.entry = "getExerciseWithRetry"
        THEN [g EXCEPT !.pc = "done", !.result = Ok(value)]
        ELSE IF f.index < Len(f.exerciseIds) /\ ~Falsy(value)
             THEN StartLookup(g, f.index + 1)
             ELSE [g EXCEPT !.pc = "done",
                            !.result = Ok([exercises |-> g.exercises,
                                           missingExerciseIds |-> g.missingExerciseIdsSet])]

FinishLookup(f, value, status) ==
    LET id == f.exerciseIds[f.index]
        g == [f EXCEPT !.lastStatus = status,
                       !.log = Append(@, Logged(f, status, "returned")),
                       !.exercises = IF Falsy(value) THEN @ ELSE Append(@, value),
                       !.missingExerciseIdsSet = IF Falsy(value) THEN SetAdd(@, id) ELSE @]
    IN  IF f.entry = "getExerciseWithRetry"
        THEN [g EXCEPT !.pc = "done", !.result = Ok(value)]
        ELSE IF f.index < Len(f.exerciseIds)
             THEN StartLookup(g, f.index + 1)
             ELSE [g EXCEPT !.pc = "done",
                            !.result = Ok([exercises |-> g.exercises,
                                           missingExerciseIds |-> g.missingExerciseIdsSet])]

\* Lines 60-70 and 17-34: the request of getExercise is answered.
LookupAnswered(f, answer) ==
    CASE answer.status = OkStatus /\ answer.data = "entity" ->
            FinishLookup(f, EntityOf(f.exerciseIds[f.index]), OkStatus)
      [] answer.status = OkStatus /\ answer.data = "none" ->
            FinishLookup(f, Undefined, OkStatus)
      [] answer.status = OkStatus /\ answer.data = "noData" ->
            FailLookup(f, TypeErrorNoData, OkStatus)
      [] answer.status = 404 ->
            FinishLookup(f, Null, 404)
      [] OTHER ->
            IF ShouldRetry(answer.status, f.attempt, f.maxRetries)
            THEN [f EXCEPT !.pc = "sleeping",
                           !.lastStatus = answer.status,
                           !.lastSleep = Backoff(answer.retryAfter, f.attempt),
                           !.attempt = @ + 1]
            ELSE FailLookup(f, UpstreamError(answer.status, "Request failed"),
                            answer.status)

\* Lines 29-30 and 15: the delay resolves and the loop condition is read.
LookupResumed(f) ==
    IF f.attempt <= f.maxRetries
    THEN [f EXCEPT !.pc = "calling", !.calls = @ + 1, !.total = @ + 1]
    ELSE FailLookup(f, LoopExitLookup, f.lastStatus)

\* verifyExercise, lines 41-57: what the promise of one position becomes.
VerifyExerciseRetrying(answer) ==
    CASE answer.status = OkStatus /\ answer.data # "noData" -> "exists"
      [] answer.status = 404 -> "absent"
      [] answer.status = TooManyRequests -> "pending"
      [] OTHER -> "rejected"

VerifyExercise(answer) ==
    CASE answer.status = OkStatus /\ answer.data # "noData" -> "exists"
      [] answer.status = 404 -> "absent"
      [] OTHER -> "rejected"

\* Lines 78-81: the identifiers at the positions whose result has !exists.
InvalidExercisesAsSet(ids, results) ==
    Unique(SelectSeq([i \in 1..Len(ids) |-> IF results[i] = "absent" THEN ids[i] ELSE 0],
                     LAMBDA id : id # 0))

InvalidExercises(ids, results) ==
    SelectSeq([i \in 1..Len(ids) |-> IF results[i] = "absent" THEN ids[i] ELSE 0],
              LAMBDA id : id # 0)

\* Lines 75-76: exerciseIds.map(id => this.verifyExercise(id)) issues the
\* request of every position, then Promise.all is awaited.
StartFanOut(f) ==
    LET n == Len(f.exerciseIds)
        g == [f EXCEPT !.results = [i \in 1..n |-> "pending"],
                       !.answered = [i \in 1..n |-> Unanswered],
                       !.total = n]
    IN  IF n = 0
        THEN [g EXCEPT !.pc = "done",
                       !.result = Ok([allValid |-> TRUE, invalidExercises |-> <<>>])]
        ELSE [g EXCEPT !.pc = "fanout"]

\* Lines 43-56 and 76-89: the request of position i is answered. Promise.all
\* rejects with the first rejection and resolves once every position has.
FanOutAnswered(f, i, answer) ==
    LET results == [f.results EXCEPT ![i] = VerifyExercise(answer)]
        g == [f EXCEPT !.results = results,
                       !.answered = [@ EXCEPT ![i] = answer.status],
                       !.lastStatus = answer.status]
        error == IF answer.status = OkStatus
                 THEN TypeErrorNoData
                 ELSE UpstreamError(answer.status, "Request failed")
    IN  IF results[i] = "rejected"
        THEN [g EXCEPT !.pc = "done",
                       !.result =
                           Thrown([name |-> "Error", status |-> NoStatus,
                                   message |-> "Failed to verify exercises: "
                                               \o error.message])]
        ELSE IF \A j \in 1..Len(results) : results[j] # "pending"
             THEN LET invalidExercises == InvalidExercises(f.exerciseIds, results)
                  IN  [g EXCEPT !.pc = "done",
                                !.result = Ok([allValid |-> Len(invalidExercises) = 0,
                                               invalidExercises |-> invalidExercises])]
             ELSE g

\* WorkoutStartPage (unnamed/part_002). Times are seconds; a date that is
\* null is NoDate. Strings typed into the form are sequences of characters.

MaxSets == 2           \* most sets an exercise of the form holds
MaxTicks == 1          \* most seconds the rest timer counts

\* new Date(), line 185: a reading before startedAt and one after it.
WorkoutTimes == {0, 2}

StartedAtTime == 1

NoDate == 0 - 1

NoRest == 0 - 1

DigitChar(d) == CHOOSE c \in Digits : DigitValue(c) = d

\* String(n) of a non-negative integer.
RECURSIVE DecimalString(_)
DecimalString(n) ==
    IF n < 10 THEN <<DigitChar(n)>>
    ELSE DecimalString(n \div 10) \o <<DigitChar(n % 10)>>

\* Number(text) of a form field.
NumberOf(text) == ToNumber([present |-> TRUE, value |-> text])

Max(a, b) == IF a >= b THEN a ELSE b

RoutineExercise(exerciseId, sets, technique, restTime) ==
    [exerciseId |-> exerciseId, sets |-> sets, technique |-> technique,
     restTime |-> restTime]

NoRoutine == [id |-> 0, exercises |-> <<>>]

Routines ==
    {[id |-> 1, exercises |-> <<RoutineExercise(1, 1, "normal", 60),
                                RoutineExercise(2, 2, "dropset", NoRest)>>],
     [id |-> 2, exercises |-> <<RoutineExercise(1, 0, "normal", NoRest),
                                RoutineExercise(2, 1, "normal", 60)>>],
     [id |-> 3, exercises |-> <<>>]}

RepsTyped == {<<>>, <<"8">>}

\* Lines 120-123 and 246-248: the rest time of the routine as field text.
RestTimeText(restTime) == IF restTime = NoRest THEN <<>> ELSE DecimalString(restTime)

\* Lines 110-125: the form built from the routine.
ExerciseForms(routine) ==
    [i \in 1..Len(routine.exercises) |->
        [exerciseId |-> routine.exercises[i].exerciseId,
         sets |-> [j \in 1..routine.exercises[i].sets |->
                      [weight |-> <<>>, reps |-> <<>>,
                       technique |-> routine.exercises[i].technique,
                       restTime |-> RestTimeText(routine.exercises[i].restTime)]]]]

NoPayload == [completedAt |-> NoDate, duration |-> NoDate]

MountedWorkoutPage ==
    [isLoading |-> TRUE, error |-> "", location |-> "/workouts/start",
     routine |-> NoRoutine, exercises |-> <<>>, isSubmitting |-> FALSE,
     formError |-> "", timerSeconds |-> 0, isTimerRunning |-> FALSE,
     completedAt |-> NoDate, durationSeconds |-> NoDate, sent |-> NoPayload]

\* Lines 104-133: loadRoutine.
RoutineLoaded(p, routine) ==
    [p EXCEPT !.routine = routine, !.exercises = ExerciseForms(routine),
              !.error = "", !.isLoading = FALSE]

\* err?.response?.data?.message of a rejection: "" stands for a rejection
\* without one (no response, no body, no message or an empty message), all
\* of which are falsy.
LoadRoutineMessages == {"", "Rutina no encontrada"}

CreateWorkoutMessages == {"", "Datos no validos"}

\* message || fallback
OrDefault(message, fallback) == IF message = "" THEN fallback ELSE message

RoutineNotLoaded(p, message) ==
    [p EXCEPT !.error = OrDefault(message, "No se pudo cargar la rutina seleccionada."),
              !.isLoading = FALSE]

\* Lines 139-164: the rest timer.
TimerTick(p) == [p EXCEPT !.timerSeconds = @ + 1]

HandleTimerStart(p) == [p EXCEPT !.isTimerRunning = TRUE]

HandleTimerPause(p) == [p EXCEPT !.isTimerRunning = FALSE]

HandleTimerReset(p) == [p EXCEPT !.isTimerRunning = FALSE, !.timerSeconds = 0]

\* Lines 186-189 and 352: Math.max(0, Math.round((end - start) / 1000)).
DurationUnclamped(start, end) == end - start

DurationBetween(start, end) == Max(0, end - start)

\* Lines 178-195, with new Date() read as now.
HandleWorkoutComplete(p, now) ==
    [p EXCEPT !.isTimerRunning = FALSE, !.formError = "",
              !.completedAt = now,
              !.durationSeconds = DurationBetween(StartedAtTime, now)]

\* Lines 197-226.
HandleSetFieldChange(p, exerciseIndex, setIndex, field, value) ==
    [p EXCEPT !.exercises =
        [exIdx \in 1..Len(p.exercises) |->
            IF exIdx - 1 # exerciseIndex
            THEN p.exercises[exIdx]
            ELSE LET exercise == p.exercises[exIdx]
                 IN  [exercise EXCEPT !.sets =
                        [sIdx \in 1..Len(exercise.sets) |->
                            IF sIdx - 1 # setIndex
                            THEN exercise.sets[sIdx]
                            ELSE [exercise.sets[sIdx] EXCEPT ![field] = value]]]]]

\* Lines 228-254: the new set takes technique and rest time from the last
\* set, or from the routine when the exercise has no set.
AddedSet(p, exIdx) ==
    LET exercise == p.exercises[exIdx]
        planned == p.routine.exercises[exIdx]
    IN  IF Len(exercise.sets) > 0
        THEN [weight |-> <<>>, reps |-> <<>>,
              technique |-> exercise.sets[Len(exercise.sets)].technique,
              restTime |-> exercise.sets[Len(exercise.sets)].restTime]
        ELSE [weight |-> <<>>, reps |-> <<>>,
              technique |-> planned.technique,
              restTime |-> RestTimeText(planned.restTime)]

HandleAddSetToAll(p, exerciseIndex) ==
    [p EXCEPT !.exercises =
        [exIdx \in 1..Len(p.exercises) |->
            [p.exercises[exIdx] EXCEPT !.sets = Append(@, AddedSet(p, exIdx))]]]

HandleAddSet(p, exerciseIndex) ==
    [p EXCEPT !.exercises =
        [exIdx \in 1..Len(p.exercises) |->
            IF exIdx - 1 # exerciseIndex
            THEN p.exercises[exIdx]
            ELSE [p.exercises[exIdx] EXCEPT !.sets = Append(@, AddedSet(p, exIdx))]]]

\* exercise.sets.filter((_, idx) => idx !== setIndex)
WithoutIndex(sets, setIndex) ==
    LET F[i \in 0..Len(sets)] ==
            IF i = 0 THEN <<>>
            ELSE IF i - 1 # setIndex THEN Append(F[i - 1], sets[i]) ELSE F[i - 1]
    IN  F[Len(sets)]

\* Lines 256-273.
HandleRemoveSetUnguarded(p, exerciseIndex, setIndex) ==
    [p EXCEPT !.exercises =
        [exIdx \in 1..Len(p.exercises) |->
            IF exIdx - 1 # exerciseIndex
            THEN p.exercises[exIdx]
            ELSE [p.exercises[exIdx] EXCEPT !.sets = WithoutIndex(@, setIndex)]]]

HandleRemoveSet(p, exerciseIndex, setIndex) ==
    [p EXCEPT !.exercises =
        [exIdx \in 1..Len(p.exercises) |->
            IF exIdx - 1 # exerciseIndex
            THEN p.exercises[exIdx]
            ELSE IF Len(p.exercises[exIdx].sets) <= 1
                 THEN p.exercises[exIdx]
                 ELSE [p.exercises[exIdx] EXCEPT !.sets = WithoutIndex(@, setIndex)]]]

\* Lines 297-329: the sets of the form in order, exercise after exercise.
RECURSIVE FlattenSets(_)
FlattenSets(exercises) ==
    IF exercises = <<>> THEN <<>>
    ELSE Head(exercises).sets \o FlattenSets(Tail(exercises))

\* Lines 300-317: the message of the check a set fails, "" when it passes.
SetError(set) ==
    LET repsValue == NumberOf(set.reps)
    IN  IF ~repsValue.finite \/ repsValue.value < 1
        THEN "Cada serie debe tener al menos 1 repeticion."
        ELSE IF set.weight # <<>> /\ ~NumberOf(set.weight).finite
             THEN "El peso debe ser un numero valido."
             ELSE IF set.restTime # <<>> /\ ~NumberOf(set.restTime).finite
                  THEN "El tiempo de descanso debe ser un numero valido."
                  ELSE ""

FirstSetError(sets) ==
    IF \A i \in 1..Len(sets) : SetError(sets[i]) = ""
    THEN ""
    ELSE SetError(sets[CHOOSE i \in 1..Len(sets) :
                          /\ SetError(sets[i]) # ""
                          /\ \A j \in 1..(i - 1) : SetError(sets[j]) = ""])

\* Lines 275-362: the message handleSubmit stops with, "" when it goes on
\* to build the payload.
SubmitErrorIgnoringCompletion(p) ==
    IF p.routine = NoRoutine
    THEN "No se pudo identificar la rutina seleccionada."
    ELSE IF Len(p.exercises) = 0
         THEN "La rutina no tiene ejercicios configurados."
         ELSE IF FirstSetError(FlattenSets(p.exercises)) # ""
              THEN FirstSetError(FlattenSets(p.exercises))
              ELSE IF Len(FlattenSets(p.exercises)) = 0
                   THEN "Registra al menos una serie antes de guardar el entrenamiento."
                   ELSE ""

SubmitError(p) ==
    IF p.routine = NoRoutine
    THEN "No se pudo identificar la rutina seleccionada."
    ELSE IF Len(p.exercises) = 0
         THEN "La rutina no tiene ejercicios configurados."
         ELSE IF FirstSetError(FlattenSets(p.exercises)) # ""
              THEN FirstSetError(FlattenSets(p.exercises))
              ELSE IF Len(FlattenSets(p.exercises)) = 0
                   THEN "Registra al menos una serie antes de guardar el entrenamiento."
                   ELSE IF p.completedAt = NoDate
                        THEN "Finaliza el entrenamiento para registrar la hora de termino."
                        ELSE ""

\* Lines 349-361: what of the payload the history keeps.
Payload(p) ==
    [completedAt |-> p.completedAt,
     duration |-> IF p.durationSeconds # NoDate
                  THEN p.durationSeconds
                  ELSE DurationBetween(StartedAtTime, p.completedAt)]

\* Lines 275-367: handleSubmit up to the await of createWorkout.
HandleSubmit(p) ==
    IF SubmitError(p) # ""
    THEN [p EXCEPT !.formError = SubmitError(p)]
    ELSE [p EXCEPT !.formError = "", !.isSubmitting = TRUE, !.sent = Payload(p)]

\* navigate(to) and <Link to=...>.
Navigate(p, to) == [p EXCEPT !.location = to]

\* Lines 368-371 and 376: createWorkout resolved.
CreateWorkoutResolved(p) ==
    [HandleTimerReset(p) EXCEPT !.completedAt = NoDate, !.durationSeconds = NoDate,
                                !.location = "/workouts", !.isSubmitting = FALSE]

\* Lines 372-376: createWorkout rejected.
CreateWorkoutRejected(p, message) ==
    [p EXCEPT !.formError = OrDefault(message, "No se pudo guardar el entrenamiento."),
              !.isSubmitting = FALSE]

\* RoutineFormPage (part_000): the list of exercises of a routine being
\* edited. An event handler reads what the render that bound it computed
\* (addedExerciseIds, the row indexes); its updater runs on the latest state.

MaxRoutineLen == 2     \* longest list of exercises the form is taken to
MaxFieldChanges == 1   \* most handleExerciseFieldChange events the form is taken through

\* The exercises a search shows (line 95).
SearchResults == {[id |-> 1], [id |-> 2]}

\* The exercises of the routines getRoutine answers with (lines 56-65), as
\* exercise ids: none on the create form.
LoadedLists == {<<>>, <<1>>, <<1, 2>>, <<2, 1>>}

\* Lines 112-119: the entry of an exercise on the form.
RoutineExerciseForm(exerciseId) ==
    [exerciseId |-> exerciseId, sets |-> 3, repRangeMin |-> Undefined,
     repRangeMax |-> Undefined, technique |-> "normal"]

\* An entry has the property (a property an object lacks reads as undefined).
Has(entry, field) == field \in DOMAIN entry

\* Line 80: the ids of the exercises of a list. An entry without exerciseId
\* adds undefined, which no exercise.id of a search result equals.
AddedExerciseIds(routineExercises) ==
    {routineExercises[i].exerciseId :
        i \in {j \in 1..Len(routineExercises) : Has(routineExercises[j], "exerciseId")}}

\* What the handlers bound by a render read of it: addedExerciseIds (line
\* 106) and the rows with their indexes (line 422).
Rendered(routineExercises) ==
    [addedExerciseIds |-> AddedExerciseIds(routineExercises),
     rows             |-> Len(routineExercises)]

\* Lines 32-33 and 43-72: the form as first shown.
LoadedRoutineForm(ids) ==
    LET routineExercises == [i \in 1..Len(ids) |-> RoutineExerciseForm(ids[i])]
    IN  [routineExercises |-> routineExercises,
         rendered         |-> Rendered(routineExercises),
         crashed          |-> FALSE,
         fieldChanges     |-> 0]

MountedRoutineForm == LoadedRoutineForm(<<>>)

\* The component function runs again on the latest state; line 80 reads
\* exercise.exerciseId of every element and throws on an undefined one.
Render(form) ==
    IF Undefined \in Range(form.routineExercises)
    THEN [form EXCEPT !.crashed = TRUE]
    ELSE [form EXCEPT !.rendered = Rendered(form.routineExercises)]

\* Lines 105-121: the check reads the set of the render, the updater prev.
HandleAddExercise(addedExerciseIds, prev, exercise) ==
    IF exercise.id \in addedExerciseIds
    THEN prev
    ELSE Append(prev, RoutineExerciseForm(exercise.id))

\* Lines 123-125.
HandleRemoveExercise(prev, index) == WithoutIndex(prev, index)

\* { ...exercise, [field]: value }: spreading undefined gives no property.
WithField(exercise, field, value) ==
    LET spread == IF exercise = Undefined THEN {} ELSE DOMAIN exercise
    IN  [f \in spread \cup {field} |-> IF f = field THEN value ELSE exercise[f]]

\* Lines 142-175. For sets Number(value) is 0 when NaN, else raised to 1;
\* for repRangeMin and repRangeMax an empty value is undefined and any other
\* is Number(value), NaN included.
HandleExerciseFieldChange(prev, index, field, value) ==
    [idx \in 1..Len(prev) |->
        IF idx - 1 # index
        THEN prev[idx]
        ELSE IF field = "technique"
             THEN WithField(prev[idx], "technique", value)
             ELSE IF field = "sets"
                  THEN LET parsed == ToNumber([present |-> TRUE, value |-> value])
                       IN  WithField(prev[idx], "sets",
                                     IF parsed = NaN THEN 0 ELSE Max(1, parsed.value))
                  ELSE LET numericValue ==
                               IF value = <<>>
                               THEN Undefined
                               ELSE ToNumber([present |-> TRUE, value |-> value])
                       IN  IF field = "repRangeMin"
                           THEN WithField(prev[idx], "repRangeMin", numericValue)
                           ELSE IF field = "repRangeMax"
                                THEN WithField(prev[idx], "repRangeMax", numericValue)
                                ELSE prev[idx]]

\* Array.prototype.splice(start, 0, item) for 0 <= start.
SpliceIn(array, start, item) ==
    LET at == IF start > Len(array) THEN Len(array) ELSE start
    IN  SubSeq(array, 1, at) \o <<item>> \o SubSeq(array, at + 1, Len(array))

\* Lines 127-140, for index >= 0. splice(index, 1) past the end removes
\* nothing and the destructured movedExercise is undefined.
MoveExercise(prev, index, direction) ==
    LET targetIndex == IF direction = "up" THEN index - 1 ELSE index + 1
    IN  IF targetIndex < 0 \/ targetIndex >= Len(prev)
        THEN prev
        ELSE LET movedExercise == IF index < Len(prev) THEN prev[index + 1] ELSE Undefined
                 newExercises  == WithoutIndex(prev, index)
             IN  SpliceIn(newExercises, targetIndex, movedExercise)

RepeatIdle ==
    /\ upstream = SteadyUpstream
    /\ first = Pending

Constructed ==
    /\ pc = "idle"
    /\ op = "batch"
    /\ exerciseIds = <<>>
    /\ maxRetries = DefaultMaxRetries
    /\ uniqueIds = <<>>
    /\ attempt = 0
    /\ calls = 0
    /\ lastRequest = <<>>
    /\ sleeps = 0
    /\ lastSleep = [after |-> 0, header |-> NoHeader, ms |-> 0]
    /\ lastResponse = NoResponse
    /\ batchResult = Pending
    /\ result = Pending
    /\ inFlight = 0
    /\ cancelRequested = FALSE
    /\ twin = [c \in TwinCalls |-> IdleFrame]
    /\ counter = [c \in TwinCalls |-> 0]

Init ==
    /\ Constructed
    /\ RepeatIdle
    /\ ValidationIdle
    /\ perId = IdleLookup
    /\ workoutPage = MountedWorkoutPage
    /\ routineForm = MountedRoutineForm

\* The promise of fetchExercisesBatch settles, and with it the entry point's.
Settle(entry, ids, batch) ==
    /\ pc' = "done"
    /\ batchResult' = batch
    /\ result' = EntryResult(entry, ids, batch)

\* Lines 25-29: axios.get(.../api/exercises/batch, { params: { ids } }).
IssueRequest(unique) ==
    /\ pc' = "calling"
    /\ calls' = calls + 1
    /\ inFlight' = inFlight + 1
    /\ lastRequest' = JoinIds(unique)
    /\ UNCHANGED <<batchResult, result>>

\* Lines 12-25: from the invocation to the first await.
InvokeResumesAttempt(entry, ids, limit) ==
    /\ pc = "idle"
    /\ op' = entry
    /\ exerciseIds' = ids
    /\ maxRetries' = limit
    /\ attempt' = attempt
    /\ UNCHANGED <<sleeps, lastSleep, lastResponse>>
    /\ UNCHANGED aside
    /\ IF IsEmptyInput(ids)
       THEN /\ Settle(entry, ids, Ok(EmptyOutcome))
            /\ UNCHANGED <<uniqueIds, calls, lastRequest, inFlight>>
       ELSE /\ uniqueIds' = Unique(ids)
            /\ IF 0 <= limit
               THEN IssueRequest(Unique(ids))
               ELSE /\ Settle(entry, ids, Thrown(LoopExitError))
                    /\ UNCHANGED <<calls, lastRequest, inFlight>>

Invoke(entry, ids, limit) ==
    /\ pc = "idle"
    /\ op' = entry
    /\ exerciseIds' = ids
    /\ maxRetries' = limit
    /\ attempt' = 0
    /\ UNCHANGED <<sleeps, lastSleep, lastResponse>>
    /\ UNCHANGED aside
    /\ IF IsEmptyInput(ids)
       THEN /\ Settle(entry, ids, Ok(EmptyOutcome))
            /\ UNCHANGED <<uniqueIds, calls, lastRequest, inFlight>>
       ELSE /\ uniqueIds' = Unique(ids)
            /\ IF 0 <= limit
               THEN IssueRequest(Unique(ids))
               ELSE /\ Settle(entry, ids, Thrown(LoopExitError))
                    /\ UNCHANGED <<calls, lastRequest, inFlight>>

CallFetchExercisesBatch ==
    \E ids \in SeqsUpTo(Ids, MaxLen), limit \in (0 - 1)..MaxRetriesBound :
        Invoke("batch", ids, limit)

CallVerifyExercises ==
    \E ids \in SeqsUpTo(Ids, MaxLen) : Invoke("verify", ids, DefaultMaxRetries)

CallGetExercises ==
    \E ids \in SeqsUpTo(Ids, MaxLen) : Invoke("get", ids, DefaultMaxRetries)

\* Lines 38-54: the catch block, on a value thrown inside the try.
Catch(error, header) ==
    IF ShouldRetry(error.status, attempt, maxRetries)
    THEN /\ lastSleep' = [after |-> attempt, header |-> header, ms |-> Backoff(header, attempt)]
         /\ attempt' = attempt + 1
         /\ sleeps' = sleeps + 1
         /\ pc' = "sleeping"
         /\ UNCHANGED <<batchResult, result>>
    ELSE /\ Settle(op, exerciseIds, Thrown(error))
         /\ UNCHANGED <<attempt, sleeps, lastSleep>>

\* axios.get resolves: lines 31-37, or the TypeError of reading .data of an
\* absent response.data, which lands in the catch block.
Resolves(body) ==
    /\ pc = "calling"
    /\ inFlight' = inFlight - 1
    /\ lastResponse' = [status |-> OkStatus, retryAfter |-> NoHeader,
                        message |-> "", body |-> body]
    /\ IF body.shape = "noData"
       THEN Catch(TypeErrorNoData, NoHeader)
       ELSE /\ Settle(op, exerciseIds, Ok(BuildOutcome(body)))
            /\ UNCHANGED <<attempt, sleeps, lastSleep>>
    /\ UNCHANGED <<op, exerciseIds, maxRetries, uniqueIds, calls, lastRequest>>
    /\ UNCHANGED aside

UpstreamResolves == \E body \in Bodies : Resolves(body)

\* axios.get rejects: lines 38-54.
UpstreamRejectsWithoutAwait ==
    \E status \in ErrorStatuses, header \in Headers, message \in Messages :
        /\ pc = "calling"
        /\ lastResponse' = [status |-> status, retryAfter |-> header,
                            message |-> message, body |-> NoBody]
        /\ IF ShouldRetry(status, attempt, maxRetries)
           THEN /\ lastSleep' = [after |-> attempt, header |-> header,
                                 ms |-> Backoff(header, attempt)]
                /\ attempt' = attempt + 1
                /\ sleeps' = sleeps + 1
                /\ pc' = "calling"
                /\ calls' = calls + 1
                /\ lastRequest' = JoinIds(uniqueIds)
                /\ UNCHANGED <<batchResult, result, inFlight>>
           ELSE /\ Settle(op, exerciseIds, Thrown(UpstreamError(status, message)))
                /\ inFlight' = inFlight - 1
                /\ UNCHANGED <<attempt, sleeps, lastSleep, calls, lastRequest>>
        /\ UNCHANGED <<op, exerciseIds, maxRetries, uniqueIds>>
        /\ UNCHANGED aside

Rejects(status, header, message) ==
    /\ pc = "calling"
    /\ inFlight' = inFlight - 1
    /\ lastResponse' = [status |-> status, retryAfter |-> header,
                        message |-> message, body |-> NoBody]
    /\ Catch(UpstreamError(status, message), header)
    /\ UNCHANGED <<op, exerciseIds, maxRetries, uniqueIds, calls, lastRequest>>
    /\ UNCHANGED aside

UpstreamRejects ==
    \E status \in ErrorStatuses, header \in Headers, message \in Messages :
        Rejects(status, header, message)

\* this.delay resolves: line 50 continues at the loop condition of line 23.
DelayElapses ==
    /\ pc = "sleeping"
    /\ IF attempt <= maxRetries
       THEN IssueRequest(uniqueIds)
       ELSE /\ Settle(op, exerciseIds, Thrown(LoopExitError))
            /\ UNCHANGED <<calls, lastRequest, inFlight>>
    /\ UNCHANGED <<op, exerciseIds, maxRetries, uniqueIds, attempt, sleeps,
                   lastSleep, lastResponse>>
    /\ UNCHANGED aside

\* The caller's deadline fires during a backoff wait. this.delay (lines 8-10)
\* is a bare setTimeout and fetchExercisesBatch takes no signal: nothing in the
\* call observes the event.
CallerCancels ==
    /\ pc = "sleeping"
    /\ ~cancelRequested
    /\ cancelRequested' = TRUE
    /\ UNCHANGED <<callVars, twin, counter, later>>

Next ==
    \/ CallFetchExercisesBatch
    \/ CallVerifyExercises
    \/ CallGetExercises
    \/ UpstreamResolves
    \/ UpstreamRejects
    \/ DelayElapses

Spec == Init /\ [][Next]_vars

\* The call with a caller whose deadline may fire.
NextCancel ==
    \/ Next
    \/ CallerCancels

SpecCancel == Init /\ [][NextCancel]_vars

-----------------------------------------------------------------------------
\* The call with an upstream and a timer that complete: an axios.get that is
\* awaited is eventually answered, a setTimeout that is awaited eventually
\* fires (lines 8-10).

LiveEntries ==
    {[entry |-> "verify", limit |-> DefaultMaxRetries],
     [entry |-> "get", limit |-> DefaultMaxRetries],
     [entry |-> "batch", limit |-> 0 - 1],
     [entry |-> "batch", limit |-> 0],
     [entry |-> "batch", limit |-> 1]}

LiveInputs == {<<>>, <<1>>, <<2, 1>>, <<1, 2, 1>>}

LiveBodies ==
    {NoDataBody, NoEnvelopeBody, EnvelopeBody(<<1>>, <<2>>), EnvelopeBody(<<2, 1>>, <<>>)}

LiveInvoke ==
    \E e \in LiveEntries, ids \in LiveInputs : Invoke(e.entry, ids, e.limit)

LiveResolves == \E body \in LiveBodies : Resolves(body)

LiveRejects ==
    \E status \in ErrorStatuses, header \in LiveHeaders :
        Rejects(status, header, "Request failed")

UpstreamSettles == LiveResolves \/ LiveRejects

NextLive ==
    \/ LiveInvoke
    \/ LiveResolves
    \/ LiveRejects
    \/ DelayElapses

SpecLive ==
    /\ Init
    /\ [][NextLive]_vars
    /\ WF_vars(UpstreamSettles)
    /\ WF_vars(DelayElapses)

-----------------------------------------------------------------------------
\* Two calls interleaved on the shared instance. Each invocation of
\* fetchExercisesBatch has its own uniqueIds and attempt (lines 20-21); the
\* instance itself holds baseURL only (line 5).

TwinInputs == {<<1>>, <<1, 2>>, <<2, 2>>}

TwinEntries ==
    {[entry |-> "verify", limit |-> DefaultMaxRetries],
     [entry |-> "get", limit |-> DefaultMaxRetries],
     [entry |-> "batch", limit |-> 1]}

TwinBodies == {EnvelopeBody(<<1>>, <<2>>), EnvelopeBody(<<1, 2>>, <<>>)}

TwinStatuses == {TooManyRequests, 500}

\* let attempt = 0 (line 21): the counter an invocation reads and writes.
AttemptOnInstance(c) == 1

AttemptOwner(c) == c

AttemptOf(c) == counter[AttemptOwner(c)]

TwinSettle(c, answer, batch) ==
    twin' = [twin EXCEPT ![c] =
                [@ EXCEPT !.pc = "done", !.answer = answer, !.batchResult = batch,
                          !.result = EntryResult(twin[c].entry, twin[c].exerciseIds, batch)]]

TwinInvoke(c) ==
    \E e \in TwinEntries, ids \in TwinInputs :
        /\ twin[c].pc = "idle"
        /\ counter' = [counter EXCEPT ![AttemptOwner(c)] = 0]
        /\ twin' = [twin EXCEPT ![c] =
                [@ EXCEPT !.entry = e.entry, !.exerciseIds = ids,
                          !.maxRetries = e.limit, !.uniqueIds = Unique(ids),
                          !.pc = "calling", !.calls = 1]]
        /\ UNCHANGED <<callVars, cancelRequested, later>>

TwinResolves(c) ==
    \E body \in TwinBodies :
        /\ twin[c].pc = "calling"
        /\ TwinSettle(c, [status |-> OkStatus, retryAfter |-> NoHeader,
                          message |-> "", body |-> body],
                      Ok(BuildOutcome(body)))
        /\ UNCHANGED <<callVars, cancelRequested, counter, later>>

TwinRejects(c) ==
    \E status \in TwinStatuses :
        LET answer == [status |-> status, retryAfter |-> NoHeader,
                       message |-> "Request failed", body |-> NoBody]
        IN  /\ twin[c].pc = "calling"
            /\ IF ShouldRetry(status, AttemptOf(c), twin[c].maxRetries)
               THEN /\ counter' = [counter EXCEPT ![AttemptOwner(c)] = @ + 1]
                    /\ twin' = [twin EXCEPT ![c] =
                            [@ EXCEPT !.pc = "sleeping", !.answer = answer,
                                      !.retried = @ + 1]]
               ELSE /\ TwinSettle(c, answer,
                                  Thrown(UpstreamError(status, "Request failed")))
                    /\ UNCHANGED counter
            /\ UNCHANGED <<callVars, cancelRequested, later>>

TwinDelayElapses(c) ==
    /\ twin[c].pc = "sleeping"
    /\ IF AttemptOf(c) <= twin[c].maxRetries
       THEN twin' = [twin EXCEPT ![c] = [@ EXCEPT !.pc = "calling", !.calls = @ + 1]]
       ELSE TwinSettle(c, twin[c].answer, Thrown(LoopExitError))
    /\ UNCHANGED <<callVars, cancelRequested, counter, later>>

NextTwin ==
    \/ \E c \in TwinCalls : TwinInvoke(c)
    \/ \E c \in TwinCalls : TwinResolves(c)
    \/ \E c \in TwinCalls : TwinRejects(c)
    \/ \E c \in TwinCalls : TwinDelayElapses(c)

SpecTwin == Init /\ [][NextTwin]_vars

-----------------------------------------------------------------------------
\* getExercises called, and called again once the promise of the first call
\* has settled, against an upstream that answers every call the same way.
\* A call starts with its own uniqueIds and attempt (lines 20-21); of the
\* call before it nothing is read.

InitRepeat ==
    /\ Constructed
    /\ upstream \in Upstreams
    /\ first = Pending
    /\ ValidationIdle
    /\ perId = IdleLookup
    /\ workoutPage = MountedWorkoutPage
    /\ routineForm = MountedRoutineForm

RepeatInvoke == \E ids \in RepeatInputs : Invoke("get", ids, DefaultMaxRetries)

UpstreamAnswers ==
    /\ pc = "calling"
    /\ LET answer == AnswerOf(upstream, lastRequest, calls)
       IN  IF answer.status = OkStatus
           THEN Resolves(answer.body)
           ELSE Rejects(answer.status, answer.retryAfter, answer.message)

\* The caller keeps the settlement of the first call and is about to call again.
RepeatAgain ==
    /\ pc = "done"
    /\ first = Pending
    /\ first' = [exerciseIds |-> exerciseIds, result |-> result]
    /\ pc' = "idle"
    /\ calls' = 0
    /\ lastRequest' = <<>>
    /\ sleeps' = 0
    /\ lastSleep' = [after |-> 0, header |-> NoHeader, ms |-> 0]
    /\ lastResponse' = NoResponse
    /\ batchResult' = Pending
    /\ result' = Pending
    /\ inFlight' = 0
    /\ UNCHANGED <<op, exerciseIds, maxRetries, uniqueIds, attempt>>
    /\ UNCHANGED <<upstream, cancelRequested, twin, counter, validationVars, perId,
                   workoutPage, routineForm>>

NextRepeat ==
    \/ RepeatInvoke
    \/ UpstreamAnswers
    \/ DelayElapses
    \/ RepeatAgain

SpecRepeat == InitRepeat /\ [][NextRepeat]_vars

-----------------------------------------------------------------------------
\* A batch request reaches the exercise service and validateBatchRequest
\* runs on its ids query value.

InitValidate ==
    /\ Constructed
    /\ RepeatIdle
    /\ idsQuery \in Queries
    /\ verdict = Unchecked
    /\ perId = IdleLookup
    /\ workoutPage = MountedWorkoutPage
    /\ routineForm = MountedRoutineForm

RunValidateBatchRequest ==
    /\ verdict = Unchecked
    /\ verdict' = ValidateBatchRequest(idsQuery)
    /\ UNCHANGED <<callVars, cancelRequested, twin, counter, repeatVars, idsQuery, perId,
                   workoutPage, routineForm>>

NextValidate == RunValidateBatchRequest

SpecValidate == InitValidate /\ [][NextValidate]_vars

-----------------------------------------------------------------------------
\* One call of the per-identifier variant.

Invoked(entry, ids, limit) ==
    [IdleLookup EXCEPT !.entry = entry, !.exerciseIds = ids, !.maxRetries = limit]

LookupStep(frame) ==
    /\ perId' = frame
    /\ UNCHANGED <<callVars, cancelRequested, twin, counter, repeatVars, validationVars,
                   workoutPage, routineForm>>

\* getExercises, lines 93-99: an empty array returns without a request.
CallGetExercisesPerId ==
    \E ids \in LookupInputs :
        /\ perId.pc = "idle"
        /\ LET f == Invoked("getExercises", ids, DefaultMaxRetries)
           IN  IF ids = <<>>
               THEN LookupStep([f EXCEPT !.pc = "done",
                                         !.result = Ok([exercises |-> <<>>,
                                                        missingExerciseIds |-> <<>>])])
               ELSE LookupStep(StartLookup(f, 1))

CallGetExerciseWithRetry ==
    \E id \in {1, 2}, limit \in LookupLimits :
        /\ perId.pc = "idle"
        /\ LookupStep(StartLookup(Invoked("getExerciseWithRetry", <<id>>, limit), 1))

CallVerifyExercisesPerId ==
    \E ids \in LookupInputs :
        /\ perId.pc = "idle"
        /\ LookupStep(StartFanOut(Invoked("verifyExercises", ids, 0)))

GetExerciseSettles ==
    \E answer \in LookupAnswers :
        /\ perId.pc = "calling"
        /\ LookupStep(LookupAnswered(perId, answer))

LookupDelayElapses ==
    /\ perId.pc = "sleeping"
    /\ LookupStep(LookupResumed(perId))

VerifyExerciseSettles ==
    \E i \in 1..Len(perId.results), answer \in LookupAnswers :
        /\ perId.pc = "fanout"
        /\ perId.results[i] = "pending"
        /\ LookupStep(FanOutAnswered(perId, i, answer))

NextPerId ==
    \/ CallGetExercisesPerId
    \/ CallGetExerciseWithRetry
    \/ CallVerifyExercisesPerId
    \/ GetExerciseSettles
    \/ LookupDelayElapses
    \/ VerifyExerciseSettles

SpecPerId == Init /\ [][NextPerId]_vars

\* The routine service runs with one variant of its exerciseService module
\* or with the other.
EitherFetchExercisesBatch == perId.pc = "idle" /\ LiveInvoke

EitherGetExercises == pc = "idle" /\ CallGetExercisesPerId

EitherGetExerciseWithRetry == pc = "idle" /\ CallGetExerciseWithRetry

EitherVerifyExercises == pc = "idle" /\ CallVerifyExercisesPerId

NextEither ==
    \/ EitherFetchExercisesBatch
    \/ LiveResolves
    \/ LiveRejects
    \/ DelayElapses
    \/ EitherGetExercises
    \/ EitherGetExerciseWithRetry
    \/ EitherVerifyExercises
    \/ GetExerciseSettles
    \/ LookupDelayElapses
    \/ VerifyExerciseSettles

SpecEither == Init /\ [][NextEither]_vars

-----------------------------------------------------------------------------
\* The workout page from its mount to navigate('/workouts').

WorkoutStep(page) ==
    /\ workoutPage' = page
    /\ UNCHANGED <<callVars, cancelRequested, twin, counter, repeatVars, validationVars,
                   perId, routineForm>>

\* A click is taken on the page as rendered from the latest state: a state
\* update made by an event handler is rendered before the next event is
\* dispatched.

\* The page is rendered past its guards (lines 380-402).
FormShown ==
    /\ ~workoutPage.isLoading
    /\ workoutPage.error = ""
    /\ workoutPage.routine # NoRoutine
    /\ workoutPage.location = "/workouts/start"

\* Lines 388-398: the error view.
ErrorShown ==
    /\ ~workoutPage.isLoading
    /\ workoutPage.error # ""
    /\ workoutPage.location = "/workouts/start"

\* Lines 478-490: the form is rendered when the routine has exercises.
FormRendered == FormShown /\ Len(workoutPage.exercises) # 0

ExerciseIndexes == 0..(Len(workoutPage.exercises) - 1)

SetIndexes == 0..(MaxSets - 1)

LoadRoutineResolves ==
    \E routine \in Routines :
        /\ workoutPage.isLoading
        /\ WorkoutStep(RoutineLoaded(workoutPage, routine))

LoadRoutineRejects ==
    \E message \in LoadRoutineMessages :
        /\ workoutPage.isLoading
        /\ WorkoutStep(RoutineNotLoaded(workoutPage, message))

IntervalFires ==
    /\ FormShown
    /\ workoutPage.isTimerRunning
    /\ workoutPage.timerSeconds < MaxTicks
    /\ WorkoutStep(TimerTick(workoutPage))

ClickTimerStart ==
    /\ FormShown
    /\ ~workoutPage.isTimerRunning
    /\ WorkoutStep(HandleTimerStart(workoutPage))

ClickTimerPause ==
    /\ FormShown
    /\ workoutPage.isTimerRunning
    /\ WorkoutStep(HandleTimerPause(workoutPage))

ClickTimerReset ==
    /\ FormShown
    /\ WorkoutStep(HandleTimerReset(workoutPage))

ClickWorkoutComplete ==
    \E now \in WorkoutTimes :
        /\ FormShown
        /\ WorkoutStep(HandleWorkoutComplete(workoutPage, now))

TypeReps ==
    \E exerciseIndex \in ExerciseIndexes, setIndex \in SetIndexes, value \in RepsTyped :
        /\ FormShown
        /\ setIndex < Len(workoutPage.exercises[exerciseIndex + 1].sets)
        /\ WorkoutStep(HandleSetFieldChange(workoutPage, exerciseIndex, setIndex,
                                            "reps", value))

\* A click on "add set". The form holds at most MaxSets sets per exercise.
AddSetOn(exerciseIndex) ==
    /\ FormShown
    /\ Len(workoutPage.exercises[exerciseIndex + 1].sets) < MaxSets
    /\ WorkoutStep(HandleAddSet(workoutPage, exerciseIndex))

ClickAddSet == \E exerciseIndex \in ExerciseIndexes : AddSetOn(exerciseIndex)

\* A click on "remove" of a row (lines 597-602): the button is disabled
\* when the exercise has one set.
RemoveSetOn(exerciseIndex, setIndex) ==
    /\ FormShown
    /\ setIndex < Len(workoutPage.exercises[exerciseIndex + 1].sets)
    /\ Len(workoutPage.exercises[exerciseIndex + 1].sets) > 1
    /\ WorkoutStep(HandleRemoveSet(workoutPage, exerciseIndex, setIndex))

ClickRemoveSet ==
    \E exerciseIndex \in ExerciseIndexes, setIndex \in SetIndexes :
        RemoveSetOn(exerciseIndex, setIndex)

SubmitForm ==
    /\ FormRendered
    /\ ~workoutPage.isSubmitting
    /\ WorkoutStep(HandleSubmit(workoutPage))

\* Lines 636-642: "Cancelar" leaves the page, also while a save is pending.
ClickCancel ==
    /\ FormRendered
    /\ WorkoutStep(Navigate(workoutPage, "/dashboard"))

\* Lines 391 and 409-415: the link back to the routines.
ClickBackToRoutines ==
    /\ FormShown \/ ErrorShown
    /\ WorkoutStep(Navigate(workoutPage, "/routines"))

\* Lines 478-487: the link shown in place of the form.
ClickConfigureRoutine ==
    /\ FormShown
    /\ Len(workoutPage.exercises) = 0
    /\ WorkoutStep(Navigate(workoutPage, "/routines/" \o ToString(workoutPage.routine.id)))

CreateWorkoutResolves ==
    /\ workoutPage.isSubmitting
    /\ WorkoutStep(CreateWorkoutResolved(workoutPage))

CreateWorkoutRejects ==
    \E message \in CreateWorkoutMessages :
        /\ workoutPage.isSubmitting
        /\ WorkoutStep(CreateWorkoutRejected(workoutPage, message))

NextWorkout ==
    \/ LoadRoutineResolves
    \/ LoadRoutineRejects
    \/ IntervalFires
    \/ ClickTimerStart
    \/ ClickTimerPause
    \/ ClickTimerReset
    \/ ClickWorkoutComplete
    \/ TypeReps
    \/ ClickAddSet
    \/ ClickRemoveSet
    \/ SubmitForm
    \/ ClickCancel
    \/ ClickBackToRoutines
    \/ ClickConfigureRoutine
    \/ CreateWorkoutResolves
    \/ CreateWorkoutRejects

SpecWorkout == Init /\ [][NextWorkout]_vars

-----------------------------------------------------------------------------
\* The routine form: clicks on the buttons of the last render, and React
\* rendering the page again at some point after a state update.

InitRoutineForm ==
    /\ Constructed
    /\ RepeatIdle
    /\ ValidationIdle
    /\ perId = IdleLookup
    /\ workoutPage = MountedWorkoutPage
    /\ routineForm \in {LoadedRoutineForm(ids) : ids \in LoadedLists}

RoutineFormStep(form) ==
    /\ routineForm' = form
    /\ UNCHANGED <<callVars, cancelRequested, twin, counter, repeatVars, validationVars,
                   perId, workoutPage>>

\* The rows of the last render (line 422), as the indexes bound to their buttons.
RenderedIndexes == 0..(routineForm.rendered.rows - 1)

Directions == {"up", "down"}

Rerender ==
    /\ ~routineForm.crashed
    /\ \/ Undefined \in Range(routineForm.routineExercises)
       \/ routineForm.rendered # Rendered(routineForm.routineExercises)
    /\ RoutineFormStep(Render(routineForm))

\* Lines 344 and 364-365: the button of a search result, disabled when the
\* render found the exercise in the list.
AddExerciseOn(exercise) ==
    /\ ~routineForm.crashed
    /\ exercise.id \notin routineForm.rendered.addedExerciseIds
    /\ Len(routineForm.routineExercises) < MaxRoutineLen
    /\ RoutineFormStep([routineForm EXCEPT !.routineExercises =
            HandleAddExercise(routineForm.rendered.addedExerciseIds, @, exercise)])

ClickAddExercise == \E exercise \in SearchResults : AddExerciseOn(exercise)

\* Line 450.
RemoveExerciseOn(index) ==
    /\ ~routineForm.crashed
    /\ RoutineFormStep([routineForm EXCEPT !.routineExercises =
            HandleRemoveExercise(@, index)])

ClickRemoveExercise == \E index \in RenderedIndexes : RemoveExerciseOn(index)

\* Lines 432-433 and 441-442: the first row's up button and the last row's
\* down button are disabled.
MoveExerciseOn(index, direction) ==
    /\ ~routineForm.crashed
    /\ direction = "up" => index # 0
    /\ direction = "down" => index # routineForm.rendered.rows - 1
    /\ RoutineFormStep([routineForm EXCEPT !.routineExercises =
            MoveExercise(@, index, direction)])

ClickMoveExercise ==
    \E index \in RenderedIndexes, direction \in Directions : MoveExerciseOn(index, direction)

\* A change of a field of a row: the handler runs on the latest list with
\* the index of the rendered row.
FieldChangeOn(index, field, value) ==
    /\ ~routineForm.crashed
    /\ routineForm.fieldChanges < MaxFieldChanges
    /\ RoutineFormStep([routineForm EXCEPT
            !.routineExercises = HandleExerciseFieldChange(@, index, field, value),
            !.fieldChanges = @ + 1])

\* Lines 462-467: what is typed in the sets input of a row.
SetsTyped == {<<"5">>, <<"0">>, <<>>, <<"a">>}

TypeSets ==
    \E index \in RenderedIndexes, value \in SetsTyped : FieldChangeOn(index, "sets", value)

\* Lines 472-488: what is typed in the two repetitions inputs of a row.
RepRangeTyped == {<<"8">>, <<>>, <<"a">>}

TypeRepRangeMin ==
    \E index \in RenderedIndexes, value \in RepRangeTyped :
        FieldChangeOn(index, "repRangeMin", value)

TypeRepRangeMax ==
    \E index \in RenderedIndexes, value \in RepRangeTyped :
        FieldChangeOn(index, "repRangeMax", value)

\* Lines 21 and 491-502: options of the technique select of a row.
TechniqueOptions == {"normal", "dropset"}

SelectTechnique ==
    \E index \in RenderedIndexes, value \in TechniqueOptions :
        FieldChangeOn(index, "technique", value)

NextRoutineForm ==
    \/ Rerender
    \/ ClickAddExercise
    \/ ClickRemoveExercise
    \/ ClickMoveExercise
    \/ TypeSets
    \/ TypeRepRangeMin
    \/ TypeRepRangeMax
    \/ SelectTechnique

SpecRoutineForm == InitRoutineForm /\ [][NextRoutineForm]_vars

-----------------------------------------------------------------------------
\* Vocabulary of the properties.

\* The identifiers of a comma-joined ids parameter: its tokens between commas.
RequestTokens(request) == [i \in 1..((Len(request) + 1) \div 2) |-> request[2 * i - 1]]

Settled == pc = "done"

Succeeded == Settled /\ batchResult.kind = "ok"

Failed == Settled /\ batchResult.kind = "error"

\* The last answer of the upstream had the given status.
AnsweredWith(status) == calls > 0 /\ lastResponse.status = status

\* A Retry-After value that is a count of seconds: one or more decimal digits.
ValidHint(value) == value # <<>> /\ Range(value) \subseteq Digits

HintSeconds(value) ==
    LET F[i \in 0..Len(value)] ==
            IF i = 0 THEN 0 ELSE 10 * F[i - 1] + DigitValue(value[i])
    IN  F[Len(value)]

EmptyHint(value) == value = <<>>

NegativeHint(value) ==
    Len(value) > 1 /\ value[1] = "-" /\ \A i \in 2..Len(value) : value[i] \in Digits

NonNumericHint(value) == \E i \in 1..Len(value) : value[i] \notin Digits \cup {"+", "-", " "}

Exponential(k) == BaseDelay * (2 ^ k)

\* The failures an entry point raises for a call whose upstream failed with
\* something other than rate limiting.
FatalFailures(entry, ids) ==
    {EntryResult(entry, ids, Thrown(UpstreamError(status, message))).error :
        status \in ErrorStatuses \ {TooManyRequests}, message \in Messages}
    \cup {EntryResult(entry, ids, Thrown(TypeErrorNoData)).error}

-----------------------------------------------------------------------------
\* C1: whenever fetchExercisesBatch returns the outcome of a 200 response
\* that carries both of its lists, every requested identifier is in exactly
\* one of exerciseMap's keys and missingExerciseIds.
C1_PartitionOfRequested ==
    (/\ Succeeded /\ AnsweredWith(OkStatus)
     /\ lastResponse.body.shape = "envelope"
     /\ lastResponse.body.hasExercises /\ lastResponse.body.hasMissing) =>
        \A id \in Range(exerciseIds) :
            (id \in DOMAIN batchResult.value.exerciseMap)
                # (id \in Range(batchResult.value.missingExerciseIds))

\* C2: with maxRetries = N >= 0 the attempt counter stays within 0..N, and a
\* call whose every upstream answer was 429 ends failed after exactly N + 1
\* upstream calls (the call is settled, so no call follows).
C2_ExhaustionAfterNPlusOneCalls ==
    /\ (pc # "idle" /\ maxRetries >= 0) => attempt \in 0..maxRetries
    /\ (Settled /\ AnsweredWith(TooManyRequests)) =>
            /\ calls = maxRetries + 1
            /\ attempt = maxRetries
            /\ sleeps = maxRetries
            /\ batchResult.kind = "error"
            /\ result.kind = "error"

C2_Witness ==
    /\ Settled /\ AnsweredWith(TooManyRequests)
    /\ maxRetries = DefaultMaxRetries /\ calls = DefaultMaxRetries + 1
    /\ result.kind = "error"

\* C3: the failure a caller receives when rate limiting persisted through
\* attempt = maxRetries is none of the failures it receives for a
\* non-rate-limit upstream error.
C3_ExhaustionDistinctFromFatal ==
    (Failed /\ AnsweredWith(TooManyRequests) /\ attempt = maxRetries) =>
        result.error \notin FatalFailures(op, exerciseIds)

\* C4: a suspension only ever follows a 429, and a call whose upstream
\* rejected with anything else at attempt k ends failed with that very error,
\* the failing call being its last (k + 1 calls, k suspensions).
C4_FatalFailsImmediately ==
    /\ pc = "sleeping" => AnsweredWith(TooManyRequests)
    /\ (Settled /\ calls > 0 /\ lastResponse.status \notin {OkStatus, TooManyRequests}) =>
            /\ batchResult = Thrown(UpstreamError(lastResponse.status, lastResponse.message))
            /\ calls = attempt + 1
            /\ sleeps = attempt

C4_Witness ==
    /\ Failed /\ lastResponse.status = 500
    /\ attempt = 2 /\ calls = 3 /\ sleeps = 2

\* C5: when the upstream call of attempt k <= maxRetries resolves with a body
\* that has its data, the call returns the outcome of that body (the ids of
\* its entities as keys, each mapped to an entity of the body with that id,
\* and its missing list), that call being its last (k + 1 calls, k suspensions).
C5_SuccessReturnsItsResponse ==
    (Settled /\ AnsweredWith(OkStatus) /\ lastResponse.body.shape # "noData") =>
        LET body == lastResponse.body
            outcome == batchResult.value
        IN  /\ batchResult.kind = "ok"
            /\ DOMAIN outcome.exerciseMap = {e.id : e \in Range(body.exercises)}
            /\ \A k \in DOMAIN outcome.exerciseMap :
                    outcome.exerciseMap[k] \in Range(body.exercises)
                        /\ outcome.exerciseMap[k].id = k
            /\ outcome.missingExerciseIds = body.missingExerciseIds
            /\ attempt <= maxRetries
            /\ calls = attempt + 1
            /\ sleeps = attempt

C5_Witness ==
    /\ Succeeded /\ AnsweredWith(OkStatus)
    /\ attempt = DefaultMaxRetries /\ calls = DefaultMaxRetries + 1
    /\ DOMAIN batchResult.value.exerciseMap # {}
    /\ batchResult.value.missingExerciseIds # <<>>

\* C6: a call with an empty identifier input returns an empty result (no
\* entities, no missing ids, allValid true with no invalid ids) after zero
\* upstream calls and zero suspensions.
C6_EmptyInputCostsNothing ==
    (Settled /\ exerciseIds = <<>>) =>
        /\ calls = 0
        /\ sleeps = 0
        /\ batchResult.kind = "ok"
        /\ DOMAIN batchResult.value.exerciseMap = {}
        /\ batchResult.value.missingExerciseIds = <<>>
        /\ op = "verify" =>
                result = Ok([allValid |-> TRUE, invalidExercises |-> <<>>])
        /\ op = "get" =>
                result = Ok([exercises |-> <<>>, missingExerciseIds |-> <<>>])

C6_Witness ==
    /\ Settled /\ exerciseIds = <<>> /\ op = "verify"
    /\ result.kind = "ok" /\ result.value.allValid /\ calls = 0

\* C7: every upstream request carries a well-formed, non-empty identifier
\* list without repetition, naming exactly the identifiers the caller passed.
C7_NoDuplicateOnTheWire ==
    calls > 0 =>
        LET ids == RequestTokens(lastRequest)
        IN  /\ Len(lastRequest) % 2 = 1
            /\ \A i \in 1..Len(lastRequest) : (lastRequest[i] = ",") <=> (i % 2 = 0)
            /\ Len(ids) > 0
            /\ \A i, j \in 1..Len(ids) : ids[i] = ids[j] => i = j
            /\ Range(ids) = {ToString(id) : id \in Range(exerciseIds)}

C7_Witness ==
    /\ op = "get" /\ calls = 3 /\ pc = "calling"
    /\ \E i, j \in 1..Len(exerciseIds) : i # j /\ exerciseIds[i] = exerciseIds[j]

\* C8: one suspension separates each pair of consecutive upstream calls, and
\* a suspension that follows a 429 of attempt k without Retry-After lasts
\* 200 * 2^k ms; one throttle then success is one 200 ms suspension, two calls.
C8_ExponentialBackoffWithoutHint ==
    /\ sleeps = (IF pc = "sleeping" THEN calls ELSE IF calls = 0 THEN 0 ELSE calls - 1)
    /\ (sleeps > 0 /\ ~lastSleep.header.present) =>
            /\ lastSleep.after = sleeps - 1
            /\ lastSleep.ms = Exponential(lastSleep.after)
    /\ (Succeeded /\ calls = 2 /\ ~lastSleep.header.present) =>
            sleeps = 1 /\ lastSleep.ms = 200

C8_Witness ==
    /\ Succeeded /\ calls = 2 /\ sleeps = 1
    /\ ~lastSleep.header.present /\ lastSleep.ms = 200

\* C9: after a 429 whose Retry-After is a count of h seconds, the suspension
\* lasts h seconds whatever the attempt number.
C9_HintIsUsedVerbatim ==
    (sleeps > 0 /\ lastSleep.header.present /\ ValidHint(lastSleep.header.value)) =>
        lastSleep.ms = HintSeconds(lastSleep.header.value) * 1000

C9_Witness ==
    /\ sleeps = 3 /\ lastSleep.after = 2
    /\ lastSleep.header = [present |-> TRUE, value |-> <<"5">>]
    /\ lastSleep.ms = 5000

\* C10: after a 429 whose Retry-After is absent, empty, non-numeric or
\* negative, the suspension that follows attempt k lasts 200 * 2^k ms.
C10_InvalidHintFallsBack ==
    (/\ sleeps > 0
     /\ \/ ~lastSleep.header.present
        \/ EmptyHint(lastSleep.header.value)
        \/ NegativeHint(lastSleep.header.value)
        \/ NonNumericHint(lastSleep.header.value)) =>
        lastSleep.ms = Exponential(lastSleep.after)

\* C11: of two consecutive suspensions that both follow a 429 without
\* Retry-After, the later one (after attempt k + 1) is at least as long as the
\* earlier one (after attempt k).
C11_BackoffMonotone ==
    [][(/\ sleeps > 0 /\ sleeps' = sleeps + 1
        /\ ~lastSleep.header.present /\ ~lastSleep'.header.present) =>
            /\ lastSleep'.after = lastSleep.after + 1
            /\ lastSleep'.ms >= lastSleep.ms]_vars

C11_Witness ==
    /\ sleeps = DefaultMaxRetries /\ lastSleep.after = DefaultMaxRetries - 1
    /\ ~lastSleep.header.present /\ lastSleep.ms = 800

\* An answer of an upstream that is consistent about the requested ids: one
\* entity for each requested id it has, every other requested id once in its
\* missing list, nothing else.
NoRepeat(s) == \A i, j \in 1..Len(s) : s[i] = s[j] => i = j

ConsistentAnswer ==
    LET body == lastResponse.body
        entityIds == [j \in 1..Len(body.exercises) |-> body.exercises[j].id]
    IN  /\ AnsweredWith(OkStatus)
        /\ body.shape = "envelope" /\ body.hasExercises /\ body.hasMissing
        /\ NoRepeat(entityIds) /\ NoRepeat(body.missingExerciseIds)
        /\ Range(entityIds) \subseteq Range(exerciseIds)
        /\ Range(body.missingExerciseIds) = Range(exerciseIds) \ Range(entityIds)

\* C12: a call answered consistently returns normally; exerciseMap's keys are
\* the requested ids the upstream has, missingExerciseIds the requested ids it
\* has not, each once.
C12_ConsistentUpstreamPartition ==
    (Settled /\ ConsistentAnswer) =>
        LET has == {e.id : e \in Range(lastResponse.body.exercises)}
        IN  /\ batchResult.kind = "ok"
            /\ result.kind = "ok"
            /\ DOMAIN batchResult.value.exerciseMap = Range(exerciseIds) \cap has
            /\ Range(batchResult.value.missingExerciseIds) = Range(exerciseIds) \ has
            /\ NoRepeat(batchResult.value.missingExerciseIds)

C12_Witness ==
    /\ Succeeded /\ ConsistentAnswer
    /\ Len(exerciseIds) = 2 /\ exerciseIds[1] # exerciseIds[2]
    /\ DOMAIN batchResult.value.exerciseMap = {exerciseIds[1]}
    /\ batchResult.value.missingExerciseIds = <<exerciseIds[2]>>

\* C13: in every result of verifyExercises, allValid is true exactly when
\* invalidExercises is empty.
C13_AllValidIffNoInvalid ==
    (Settled /\ op = "verify" /\ result.kind = "ok") =>
        (result.value.allValid <=> result.value.invalidExercises = <<>>)

C13_Witness ==
    /\ Settled /\ op = "verify" /\ result.kind = "ok"
    /\ ~result.value.allValid /\ Len(result.value.invalidExercises) = 2

\* The identifiers of a sequence that are keys of exerciseMap, in order.
ResolvedOf(ids) ==
    SelectSeq(ids, LAMBDA id : id \in DOMAIN batchResult.value.exerciseMap)

\* C14 as stated: getExercises returns one entity per distinct resolved
\* identifier, placed by the identifier's first occurrence in the input.
C14_OrderOfDeduplicatedInput ==
    (Settled /\ op = "get" /\ result.kind = "ok") =>
        LET firsts == ResolvedOf(Unique(exerciseIds))
        IN  /\ Len(result.value.exercises) = Len(firsts)
            /\ \A i \in 1..Len(firsts) : result.value.exercises[i].id = firsts[i]

\* C14 as amended: getExercises returns one entity per position of the
\* caller's input whose identifier resolved, in the caller's order, so the
\* entity of a repeated identifier is returned at each of its occurrences.
C14_OrderOfCallerInput ==
    (Settled /\ op = "get" /\ result.kind = "ok") =>
        LET hits == ResolvedOf(exerciseIds)
        IN  /\ Len(result.value.exercises) = Len(hits)
            /\ \A i \in 1..Len(hits) :
                    /\ result.value.exercises[i].id = hits[i]
                    /\ result.value.exercises[i] = batchResult.value.exerciseMap[hits[i]]

C14_Witness ==
    /\ Settled /\ op = "get" /\ result.kind = "ok"
    /\ Len(exerciseIds) = 2 /\ exerciseIds[1] = exerciseIds[2]
    /\ Len(result.value.exercises) = 2
    /\ result.value.exercises[1] = result.value.exercises[2]

\* The missing-identifier sequence an entry point returned.
ReturnedMissing ==
    IF op = "verify" THEN result.value.invalidExercises
    ELSE result.value.missingExerciseIds

\* s lists elements of t, each once, in the order of their first occurrence in t.
InFirstSeenOrder(s, t) ==
    /\ Range(s) \subseteq Range(t)
    /\ NoRepeat(s)
    /\ s = SelectSeq(Unique(t), LAMBDA id : id \in Range(s))

\* C15: whatever the two lists of the upstream's 200 body hold, the
\* missing-identifier sequence returned by getExercises and verifyExercises
\* holds only requested identifiers, none twice, in the order of their first
\* occurrence in the caller's input.
C15_MissingInFirstSeenOrder ==
    (/\ Settled /\ op \in {"get", "verify"} /\ result.kind = "ok"
     /\ AnsweredWith(OkStatus)
     /\ lastResponse.body.shape = "envelope"
     /\ lastResponse.body.hasExercises /\ lastResponse.body.hasMissing) =>
        InFirstSeenOrder(ReturnedMissing, exerciseIds)

\* C16: a 200 response whose body lacks its data, its data envelope or its
\* entity list makes fetchExercisesBatch fail.
C16_MalformedBodyFails ==
    (/\ Settled /\ AnsweredWith(OkStatus)
     /\ \/ lastResponse.body.shape # "envelope"
        \/ ~lastResponse.body.hasExercises) =>
        batchResult.kind = "error"

\* C17: when fetchExercisesBatch fails, the entry point invoked fails too,
\* with an error that carries the resolver's message.
C17_FailurePropagates ==
    (Settled /\ batchResult.kind = "error") =>
        /\ result.kind = "error"
        /\ op = "verify" =>
                result.error.message
                    = "Failed to verify exercises: " \o batchResult.error.message
        /\ op = "get" =>
                result.error.message
                    = "Failed to get exercises: " \o batchResult.error.message

C17_Witness ==
    /\ Failed /\ op = "get" /\ AnsweredWith(TooManyRequests)
    /\ calls = DefaultMaxRetries + 1 /\ result.kind = "error"

\* C18: at most one upstream request is outstanding, and a request is only
\* issued with none outstanding: the first on invocation, the request of
\* attempt N + 1 in the step that ends the suspension following attempt N.
C18_OneRequestAtATime ==
    /\ [](inFlight \in {0, 1} /\ (inFlight = 1 <=> pc = "calling"))
    /\ [][calls' # calls =>
            /\ calls' = calls + 1
            /\ inFlight = 0
            /\ calls' = attempt' + 1
            /\ \/ pc = "idle" /\ calls = 0
               \/ pc = "sleeping" /\ sleeps = calls /\ AnsweredWith(TooManyRequests)]_vars

C18_Witness ==
    /\ pc = "calling" /\ inFlight = 1
    /\ calls = DefaultMaxRetries + 1 /\ sleeps = DefaultMaxRetries

\* C20: once the caller's cancellation has fired during a backoff wait, no
\* upstream request is issued any more and the call ends as a Cancelled
\* failure, which is none of the failures the code raises otherwise.
C20_CancelledDuringBackoff ==
    cancelRequested =>
        /\ pc # "calling"
        /\ inFlight = 0
        /\ Settled =>
                /\ batchResult.kind = "error"
                /\ batchResult.error.name \notin {"AxiosError", "TypeError", "Error"}

\* C19: with two calls interleaved, a step of one call changes nothing of the
\* other (its identifier set, attempt counter, calls made, outcome), and each
\* call's attempts and outcome follow from its own answers alone: it has
\* retried once per 429 it received below its limit, and it settles with the
\* result of its own last answer.
C19_CallsDoNotInterfere ==
    /\ [](\A c \in TwinCalls :
            twin[c].pc # "idle" =>
                /\ AttemptOf(c) = twin[c].retried
                /\ twin[c].retried <= twin[c].maxRetries
                /\ twin[c].calls
                        = twin[c].retried + (IF twin[c].pc = "sleeping" THEN 0 ELSE 1)
                /\ twin[c].uniqueIds = Unique(twin[c].exerciseIds)
                /\ twin[c].pc = "done" =>
                        IF twin[c].answer.status = OkStatus
                        THEN /\ twin[c].batchResult.kind = "ok"
                             /\ twin[c].batchResult.value.missingExerciseIds
                                    = twin[c].answer.body.missingExerciseIds
                        ELSE /\ twin[c].batchResult
                                    = Thrown(UpstreamError(twin[c].answer.status,
                                                           twin[c].answer.message))
                             /\ twin[c].result.kind = "error")
    /\ [][\A c, d \in TwinCalls :
            (c # d /\ twin'[d] # twin[d]) =>
                /\ twin'[c] = twin[c]
                /\ counter'[AttemptOwner(c)] = counter[AttemptOwner(c)]]_vars

C19_Witness ==
    /\ twin[1].pc = "done" /\ twin[2].pc = "done"
    /\ twin[1].exerciseIds = <<1, 2>> /\ twin[2].exerciseIds = <<1>>
    /\ twin[1].batchResult.kind = "error" /\ twin[1].answer.status = TooManyRequests
    /\ twin[1].calls = DefaultMaxRetries + 1
    /\ twin[2].batchResult.kind = "ok" /\ twin[2].calls = 1

\* C21: when getExercises is called a second time with the identifier
\* sequence of the first call, against an upstream that answers as it did
\* then, the second call settles as the first did: the same entities in the
\* same order and the same missing identifiers in the same order, or the
\* same failure.
C21_SecondCallSettlesAsFirst ==
    (first # Pending /\ Settled /\ exerciseIds = first.exerciseIds) =>
        result = first.result

C21_Witness ==
    /\ first # Pending /\ Settled /\ exerciseIds = first.exerciseIds
    /\ upstream.throttle > 0
    /\ sleeps > 0
    /\ result.kind = "ok"
    /\ Len(result.value.exercises) = 2
    /\ Len(result.value.missingExerciseIds) = 1

\* The three ends of a resolution call.
EndsInSuccess == batchResult.kind = "ok"

EndsInExhaustion ==
    /\ batchResult.kind = "error"
    /\ AnsweredWith(TooManyRequests)
    /\ attempt = maxRetries

EndsInFatal ==
    /\ batchResult.kind = "error"
    /\ calls > 0
    /\ lastResponse.status # TooManyRequests

Count(b) == IF b THEN 1 ELSE 0

\* Every answer so far was a 429 that was retried or a 200 carrying data.
OnlyTransientThrottling ==
    /\ \/ lastResponse = NoResponse
       \/ lastResponse.status = TooManyRequests
       \/ lastResponse.status = OkStatus /\ lastResponse.body.shape # "noData"
    /\ ~(Settled /\ calls > 0 /\ lastResponse.status = TooManyRequests)

\* C22: with an upstream and a timer that complete, every call made with
\* maxRetries >= 0 eventually settles, and a settled call ended in exactly one
\* of success, exhaustion and fatal failure; and a verifyExercises call whose
\* upstream answers 429 fewer than maxRetries + 1 times and then 200
\* eventually returns an allValid / invalidExercises pair.
C22_EveryCallEnds ==
    /\ (pc # "idle") ~> Settled
    /\ [](Settled /\ maxRetries >= 0 =>
            Count(EndsInSuccess) + Count(EndsInExhaustion) + Count(EndsInFatal) = 1)
    /\ ([]OnlyTransientThrottling /\ <>(op = "verify" /\ pc # "idle")) =>
            <>(/\ Settled
               /\ op = "verify"
               /\ result.kind = "ok"
               /\ result.value.allValid = (result.value.invalidExercises = <<>>))

C22_Witness ==
    /\ Settled /\ op = "verify" /\ sleeps = DefaultMaxRetries
    /\ result.kind = "ok"
    /\ ~result.value.allValid

\* A token that is a positive integer: decimal digits only, not all zero.
PositiveIntegerToken(t) == t # <<>> /\ Range(t) \subseteq Digits /\ HintSeconds(t) > 0

\* C23: a value that validateBatchRequest accepts has only positive integers
\* between its commas (blanks around a token aside): a value with an empty,
\* zero, negative or non-numeric token is rejected.
C23_AcceptsOnlyPositiveIntegers ==
    verdict.valid =>
        \A i \in 1..Len(Split(idsQuery.value)) :
            PositiveIntegerToken(Trim(Split(idsQuery.value)[i]))

\* Vocabulary of the per-identifier variant.
LookupsOf(entry) == perId.pc # "idle" /\ perId.entry = entry

LookupInProgress == perId.pc \in {"calling", "sleeping"}

RECURSIVE SumOfCalls(_)
SumOfCalls(log) == IF log = <<>> THEN 0 ELSE Head(log).calls + SumOfCalls(Tail(log))

\* C24 as stated: in the per-identifier variant a lookup answered 404
\* returns null after exactly one upstream call for that identifier.
C24_NullAfterExactlyOneCall ==
    \A i \in 1..Len(perId.log) :
        perId.log[i].status = 404 =>
            /\ perId.log[i].end = "returned"
            /\ perId.log[i].calls = 1

\* C24: in the per-identifier variant a 404 ends the lookup of its
\* identifier with null: the call that was answered 404 is the last one for
\* that identifier (the only one when it was the first answer), no suspension
\* follows it, getExerciseWithRetry returns null, and getExercises has the
\* identifier among the missing ones and goes on to the next identifier (or
\* returns, after the last one).
C24_NotFoundIsNullNotRetried ==
    /\ perId.pc = "sleeping" => perId.lastStatus = TooManyRequests
    /\ \A i \in 1..Len(perId.log) :
        perId.log[i].status = 404 =>
            /\ perId.log[i].end = "returned"
            /\ perId.log[i].calls = perId.log[i].attempt + 1
            /\ perId.entry = "getExerciseWithRetry" => perId.result = Ok(Null)
            /\ perId.entry = "getExercises" =>
                /\ perId.log[i].id \in Range(perId.missingExerciseIdsSet)
                /\ i < Len(perId.exerciseIds) =>
                        \/ Len(perId.log) > i
                        \/ LookupInProgress /\ perId.index = i + 1
                /\ i = Len(perId.exerciseIds) =>
                        /\ perId.result.kind = "ok"
                        /\ perId.log[i].id \in Range(perId.result.value.missingExerciseIds)

C24_Witness ==
    /\ LookupsOf("getExercises") /\ perId.pc = "done"
    /\ perId.exerciseIds = <<1, 2>>
    /\ perId.log[1].status = 404 /\ perId.log[1].calls = 2 /\ perId.log[1].attempt = 1
    /\ perId.total = 3
    /\ perId.result = Ok([exercises |-> <<EntityOf(2)>>, missingExerciseIds |-> <<1>>])

\* C25: in the per-identifier variant getExercises looks the identifiers up
\* one after the other in the caller's order, the attempt counter of each
\* lookup starting at 0 (so a lookup costs at most maxRetries + 1 calls and
\* n identifiers at most n * (maxRetries + 1)); and once a lookup has failed
\* the call has failed, nothing is returned, and no request follows.
C25_SequentialAndFailFast ==
    /\ [](LookupsOf("getExercises") =>
            /\ \A i \in 1..Len(perId.log) :
                /\ perId.log[i].id = perId.exerciseIds[i]
                /\ perId.log[i].calls = perId.log[i].attempt + 1
                /\ perId.log[i].calls <= perId.maxRetries + 1
                /\ i < Len(perId.log) => perId.log[i].end = "returned"
            /\ LookupInProgress =>
                /\ perId.index = Len(perId.log) + 1
                /\ perId.attempt = IF perId.pc = "calling" THEN perId.calls - 1 ELSE perId.calls
                /\ perId.total = SumOfCalls(perId.log) + perId.calls
            /\ perId.total <= Len(perId.exerciseIds) * (perId.maxRetries + 1)
            /\ (perId.log # <<>> /\ perId.log[Len(perId.log)].end = "thrown") =>
                /\ perId.pc = "done"
                /\ perId.result.kind = "error"
                /\ perId.total = SumOfCalls(perId.log))
    /\ [][perId.pc = "done" => perId' = perId]_vars

C25_Witness ==
    /\ LookupsOf("getExercises") /\ perId.pc = "done"
    /\ perId.exerciseIds = <<2, 1>>
    /\ Len(perId.log) = 1
    /\ perId.log[1].end = "thrown"
    /\ perId.log[1].status = TooManyRequests
    /\ perId.total = DefaultMaxRetries + 1
    /\ perId.result.kind = "error"

\* The identifiers at the positions answered 404, in request order.
AnsweredNotFound(ids, answered) ==
    LET F[i \in 0..Len(ids)] ==
            IF i = 0 THEN <<>>
            ELSE IF answered[i] = 404 THEN Append(F[i - 1], ids[i]) ELSE F[i - 1]
    IN  F[Len(ids)]

\* C26: in the fan-out variant verifyExercises issues one request per
\* position of its argument and never another; it returns the identifiers
\* of the positions answered 404, in request order; and it fails as soon as
\* a position is answered with an error status other than 404, 429 included.
C26_FanOutWithoutRetry ==
    LookupsOf("verifyExercises") =>
        /\ perId.total = Len(perId.exerciseIds)
        /\ perId.attempt = 0
        /\ \A i \in 1..Len(perId.answered) :
                perId.answered[i] \notin {Unanswered, OkStatus, 404} =>
                    perId.pc = "done" /\ perId.result.kind = "error"
        /\ (perId.pc = "done" /\ perId.result.kind = "ok") =>
                /\ \A i \in 1..Len(perId.answered) : perId.answered[i] \in {OkStatus, 404}
                /\ perId.result.value.invalidExercises =
                        AnsweredNotFound(perId.exerciseIds, perId.answered)
                /\ perId.result.value.allValid =
                        (\A i \in 1..Len(perId.answered) : perId.answered[i] = OkStatus)

C26_Witness ==
    /\ LookupsOf("verifyExercises") /\ perId.pc = "done"
    /\ perId.exerciseIds = <<1, 1>>
    /\ perId.total = 2
    /\ perId.result = Ok([allValid |-> FALSE, invalidExercises |-> <<1, 1>>])

\* The error after the loop of getExerciseWithRetry, as its caller sees it.
LoopExitSeen(frame) ==
    /\ frame.result.kind = "error"
    /\ frame.result.error.message \in
            {LoopExitLookup.message, "Failed to get exercises: " \o LoopExitLookup.message}

\* C30: in a call of fetchExercisesBatch or getExerciseWithRetry with
\* maxRetries >= 0 the attempt counter never passes maxRetries, so the loop
\* condition never fails and the error after the loop is never thrown; with
\* a negative maxRetries (and something to look up) the call fails with that
\* error without a single upstream call.
C30_LoopExitOnlyForNegativeLimit ==
    /\ (pc # "idle" /\ maxRetries >= 0) =>
            /\ attempt <= maxRetries
            /\ batchResult # Thrown(LoopExitError)
    /\ (pc # "idle" /\ maxRetries < 0 /\ exerciseIds # <<>>) =>
            /\ batchResult = Thrown(LoopExitError)
            /\ calls = 0
    /\ (LookupsOf("getExercises") \/ LookupsOf("getExerciseWithRetry")) =>
            /\ perId.maxRetries >= 0 =>
                    /\ perId.attempt <= perId.maxRetries
                    /\ ~LoopExitSeen(perId)
            /\ perId.maxRetries < 0 =>
                    /\ perId.result = Thrown(LoopExitLookup)
                    /\ perId.total = 0

C30_Witness ==
    /\ pc = "calling"
    /\ op = "batch"
    /\ maxRetries = 1
    /\ attempt = maxRetries
    /\ sleeps = 1
    /\ calls = 2

\* createWorkout is called in this step.
CreateWorkoutCalled == ~workoutPage.isSubmitting /\ workoutPage'.isSubmitting

SendsOnlyWhenFinalised ==
    /\ CreateWorkoutCalled =>
            /\ workoutPage.completedAt # NoDate
            /\ workoutPage'.sent.completedAt = workoutPage.completedAt
    /\ (SubmitForm /\ workoutPage.completedAt = NoDate) =>
            /\ ~workoutPage'.isSubmitting
            /\ workoutPage'.sent = workoutPage.sent

\* C27: on the workout page every payload passed to createWorkout carries a
\* completedAt and a duration >= 0, createWorkout is only ever called in a
\* state whose completedAt is set, and a submit made while completedAt is
\* null calls nothing and leaves the payload history as it is.
C27_NothingSentBeforeFinalised ==
    /\ [](workoutPage.sent # NoPayload =>
            /\ workoutPage.sent.completedAt \in WorkoutTimes
            /\ workoutPage.sent.duration >= 0)
    /\ [][SendsOnlyWhenFinalised]_vars

C27_Witness ==
    /\ workoutPage.isSubmitting
    /\ workoutPage.timerSeconds > 0
    /\ workoutPage.sent = [completedAt |-> 0, duration |-> 0]
    /\ workoutPage.completedAt = 0

\* handleRemoveSet, called in this state on any exercise and any set index,
\* leaves a set to every exercise that has one.
RemoveSetLeavesOne ==
    \A e \in ExerciseIndexes, k \in SetIndexes, i \in 1..Len(workoutPage.exercises) :
        Len(workoutPage.exercises[i].sets) >= 1 =>
            Len(HandleRemoveSet(workoutPage, e, k).exercises[i].sets) >= 1

\* C28: on the workout page an exercise that the routine gave at least one
\* set always has at least one set, whatever exercise and set index
\* handleRemoveSet is called on, and a step of handleAddSet or
\* handleRemoveSet on one exercise leaves every other exercise as it was.
C28_SetsStayAndOthersUntouched ==
    /\ [](\A i \in 1..Len(workoutPage.exercises) :
            workoutPage.routine.exercises[i].sets >= 1 =>
                Len(workoutPage.exercises[i].sets) >= 1)
    /\ []RemoveSetLeavesOne
    /\ [][\A e \in ExerciseIndexes :
            (AddSetOn(e) \/ \E k \in SetIndexes : RemoveSetOn(e, k)) =>
                \A o \in ExerciseIndexes \ {e} :
                    workoutPage'.exercises[o + 1] = workoutPage.exercises[o + 1]]_vars

C28_Witness ==
    /\ workoutPage.routine.id = 1
    /\ Len(workoutPage.exercises[1].sets) = 2
    /\ Len(workoutPage.exercises[2].sets) = 1
    /\ workoutPage.exercises[1].sets[1].reps = <<"8">>

\* How many times a value occurs in a list.
Occurrences(list, value) == Cardinality({i \in 1..Len(list) : list[i] = value})

SameElements(before, after) ==
    \A value \in Range(before) \cup Range(after) :
        Occurrences(before, value) = Occurrences(after, value)

NoExerciseTwice(routineExercises) ==
    \A i, j \in 1..Len(routineExercises) :
        (/\ i < j
         /\ Has(routineExercises[i], "exerciseId")
         /\ Has(routineExercises[j], "exerciseId"))
            => routineExercises[i].exerciseId # routineExercises[j].exerciseId

MoveKeepsElements ==
    \A index \in RenderedIndexes, direction \in Directions :
        MoveExerciseOn(index, direction) =>
            LET targetIndex == IF direction = "up" THEN index - 1 ELSE index + 1
                prev        == routineForm.routineExercises
            IN  /\ SameElements(prev, routineForm'.routineExercises)
                /\ (targetIndex < 0 \/ targetIndex >= Len(prev)) =>
                        routineForm'.routineExercises = prev

\* C29: on the routine form, from a list with pairwise distinct exercise
\* ids, no sequence of add, remove and move events, two adds of one
\* exercise before a re-render included, gives a list holding the same
\* exerciseId twice; a move keeps the same elements and leaves the list as
\* it is when its target index is out of range.
C29_NeverTheSameExerciseTwice ==
    /\ [](NoExerciseTwice(routineForm.routineExercises))
    /\ [][MoveKeepsElements]_vars

====
